---- MODULE Spec2Model ----
(***************************************************************************)
(* PokemonTrading: fixed-price listings, timed auctions with a 5% minimum  *)
(* increment and anti-sniping extension, commit-reveal bids and a          *)
(* pull-payment ledger, over an ERC721 custody registry (PokemonNFT).      *)
(* Every external function of the contract is one operator from the state  *)
(* before the call to the outcome (error name, state after); a reverted    *)
(* call leaves the state as it was.  withdraw hands control to the         *)
(* recipient while it dispatches funds, so it is split at that call.       *)
(***************************************************************************)
EXTENDS Integers, Sequences, FiniteSets, TLC

\* ------------------------------------------------------------------ bounds
MaxBalance == 2
MaxTicks == 1
MaxDepth == 2
MaxEscrow == 44

\* ------------------------------------------------------ program constants
MIN_BID_INCREMENT_BPS == 500
AUCTION_EXTENSION_DURATION == 300
MAX_AUCTION_DURATION == 2592000
MIN_AUCTION_DURATION == 60

\* ------------------------------------------------------------- identities
Parties == {"admin", "alice", "bob"}
Engine == "engine"
NoAddr == "0x0"
Assets == {1, 2}
ZeroHash == <<>>
NOT_ENTERED == "NOT_ENTERED"
ENTERED == "ENTERED"

VARIABLES
    listings,            \* tokenId -> Listing
    auctions,            \* tokenId -> Auction
    pendingWithdrawals,  \* party -> amount owed
    bidCommitments,      \* tokenId -> bidder -> commitment
    status,              \* ReentrancyGuard._status
    paused,              \* Pausable._paused of the trading contract
    balance,             \* ether held by the trading contract
    nftOwner,            \* PokemonNFT: tokenId -> owner
    nftApproved,         \* PokemonNFT: tokenId -> approved spender
    nftPaused,           \* PokemonNFT: Pausable._paused
    now,                 \* block.timestamp
    callStack,           \* withdraw calls whose fund dispatch is in progress
    sent,                \* party -> ether dispatched to it in this transaction
    last                 \* the call made by the last step and its outcome

engineVars == <<listings, auctions, pendingWithdrawals, bidCommitments, status,
                paused, balance, nftOwner, nftApproved, nftPaused>>
vars == <<listings, auctions, pendingWithdrawals, bidCommitments, status,
          paused, balance, nftOwner, nftApproved, nftPaused, now,
          callStack, sent, last>>

\* The contracts' storage as one record: what a call reads and what a revert restores.
St ==
    [listings |-> listings, auctions |-> auctions,
     pendingWithdrawals |-> pendingWithdrawals, bidCommitments |-> bidCommitments,
     status |-> status, paused |-> paused, balance |-> balance,
     nftOwner |-> nftOwner, nftApproved |-> nftApproved, nftPaused |-> nftPaused]

NoListing == [seller |-> NoAddr, price |-> 0, active |-> FALSE]
NoAuction ==
    [seller |-> NoAddr, startingPrice |-> 0, highestBid |-> 0,
     highestBidder |-> NoAddr, endTime |-> 0, settled |-> FALSE]

Fail(s, e) == [err |-> e, st |-> s]
Ok(s) == [err |-> "ok", st |-> s]

\* ----------------------------------------------------------- modifiers

\* Mutant: a whenNotPaused modifier that never stops a call.
whenNotPausedAbsent(s) == TRUE


whenNotPaused(s) == ~s.paused


\* Mutant: a nonReentrant modifier that lets every call through.
nonReentrantAbsent(s) == TRUE


nonReentrant(s) == s.status # ENTERED

\* Ownable: the deployer of the trading contract.
owner == "admin"

\* Mutant: an onlyOwner modifier that lets every caller through.
onlyOwnerAbsent(sender) == TRUE


onlyOwner(sender) == sender = owner

\* The modifiers of a trading function in the order they are written:
\* whenNotPaused (when the function carries it), then nonReentrant.
Modifiers(s, pausable) ==
    IF pausable /\ ~whenNotPaused(s) THEN "EnforcedPause"
    ELSE IF ~nonReentrant(s) THEN "ReentrancyGuardReentrantCall"
    ELSE "ok"

\* --------------------------------------------------- custody (PokemonNFT)
ownerOf(s, tokenId) == s.nftOwner[tokenId]

\* transferFrom succeeds when the registry is not paused, from is the owner
\* and the spender is the owner or the token's approved address.
transferAllowed(s, spender, from, tokenId) ==
    /\ ~s.nftPaused
    /\ s.nftOwner[tokenId] = from
    /\ (spender = from \/ s.nftApproved[tokenId] = spender)

transferFrom(s, to, tokenId) ==
    [s EXCEPT !.nftOwner[tokenId] = to, !.nftApproved[tokenId] = NoAddr]

\* ------------------------------------------------------ fixed-price sale

\* Mutant: listCard checks the owner before the active flag.
listCardOwnerFirst(s, sender, tokenId, price) ==
    LET m == Modifiers(s, TRUE) IN
    IF m # "ok" THEN Fail(s, m)
    ELSE IF ownerOf(s, tokenId) # sender THEN Fail(s, "NotCardOwner")
    ELSE IF price = 0 THEN Fail(s, "PriceMustBePositive")
    ELSE IF s.listings[tokenId].active THEN Fail(s, "AlreadyListed")
    ELSE IF ~transferAllowed(s, Engine, sender, tokenId) THEN Fail(s, "TransferRefused")
    ELSE Ok([transferFrom(s, Engine, tokenId) EXCEPT
                !.listings[tokenId] =
                    [seller |-> sender, price |-> price, active |-> TRUE]])

\* Mutant: listCard records the listing without taking the asset into escrow.
listCardNoEscrow(s, sender, tokenId, price) ==
    LET m == Modifiers(s, TRUE) IN
    IF m # "ok" THEN Fail(s, m)
    ELSE IF s.listings[tokenId].active THEN Fail(s, "AlreadyListed")
    ELSE IF ownerOf(s, tokenId) # sender THEN Fail(s, "NotCardOwner")
    ELSE IF price = 0 THEN Fail(s, "PriceMustBePositive")
    ELSE IF ~transferAllowed(s, Engine, sender, tokenId) THEN Fail(s, "TransferRefused")
    ELSE Ok([s EXCEPT
                !.listings[tokenId] =
                    [seller |-> sender, price |-> price, active |-> TRUE]])


listCard(s, sender, tokenId, price) ==
    LET m == Modifiers(s, TRUE) IN
    IF m # "ok" THEN Fail(s, m)
    ELSE IF s.listings[tokenId].active THEN Fail(s, "AlreadyListed")
    ELSE IF ownerOf(s, tokenId) # sender THEN Fail(s, "NotCardOwner")
    ELSE IF price = 0 THEN Fail(s, "PriceMustBePositive")
    ELSE IF ~transferAllowed(s, Engine, sender, tokenId) THEN Fail(s, "TransferRefused")
    ELSE Ok([transferFrom(s, Engine, tokenId) EXCEPT
                !.listings[tokenId] =
                    [seller |-> sender, price |-> price, active |-> TRUE]])


\* Mutant: unlistCard returns the asset but leaves the listing active.
unlistCardStaysActive(s, sender, tokenId) ==
    LET m == Modifiers(s, TRUE) IN
    IF m # "ok" THEN Fail(s, m)
    ELSE IF ~s.listings[tokenId].active THEN Fail(s, "NotListed")
    ELSE IF s.listings[tokenId].seller # sender THEN Fail(s, "NotSeller")
    ELSE IF ~transferAllowed(s, Engine, Engine, tokenId) THEN Fail(s, "TransferRefused")
    ELSE Ok(transferFrom(s, sender, tokenId))

\* Mutant: unlistCard hands the asset to whoever calls.
unlistCardAnyCaller(s, sender, tokenId) ==
    LET m == Modifiers(s, TRUE) IN
    IF m # "ok" THEN Fail(s, m)
    ELSE IF ~s.listings[tokenId].active THEN Fail(s, "NotListed")
    ELSE IF ~transferAllowed(s, Engine, Engine, tokenId) THEN Fail(s, "TransferRefused")
    ELSE Ok([transferFrom(s, sender, tokenId) EXCEPT
                !.listings[tokenId].active = FALSE])

\* Mutant: unlistCard deactivates the listing and keeps the asset in escrow.
unlistCardKeepsEscrow(s, sender, tokenId) ==
    LET m == Modifiers(s, TRUE) IN
    IF m # "ok" THEN Fail(s, m)
    ELSE IF ~s.listings[tokenId].active THEN Fail(s, "NotListed")
    ELSE IF s.listings[tokenId].seller # sender THEN Fail(s, "NotSeller")
    ELSE IF ~transferAllowed(s, Engine, Engine, tokenId) THEN Fail(s, "TransferRefused")
    ELSE Ok([s EXCEPT !.listings[tokenId].active = FALSE])


unlistCard(s, sender, tokenId) ==
    LET m == Modifiers(s, TRUE) IN
    IF m # "ok" THEN Fail(s, m)
    ELSE IF ~s.listings[tokenId].active THEN Fail(s, "NotListed")
    ELSE IF s.listings[tokenId].seller # sender THEN Fail(s, "NotSeller")
    ELSE IF ~transferAllowed(s, Engine, Engine, tokenId) THEN Fail(s, "TransferRefused")
    ELSE Ok([transferFrom(s, sender, tokenId) EXCEPT
                !.listings[tokenId].active = FALSE])


\* Mutant: buyCard sends the overpayment straight back to the buyer.
buyCardPushesRefund(s, sender, tokenId, value) ==
    LET m == Modifiers(s, TRUE)
        listing == s.listings[tokenId]
        price == listing.price
    IN
    IF m # "ok" THEN Fail(s, m)
    ELSE IF ~listing.active THEN Fail(s, "NotListed")
    ELSE IF value < listing.price THEN Fail(s, "InsufficientPayment")
    ELSE IF ~transferAllowed(s, Engine, Engine, tokenId) THEN Fail(s, "TransferRefused")
    ELSE Ok([transferFrom(s, sender, tokenId) EXCEPT
                !.listings[tokenId].active = FALSE,
                !.pendingWithdrawals[listing.seller] = @ + price,
                !.balance = @ + price])

\* Mutant: buyCard does not look at the active flag.
buyCardIgnoresActive(s, sender, tokenId, value) ==
    LET m == Modifiers(s, TRUE)
        listing == s.listings[tokenId]
        price == listing.price
        excess == value - price
        credited == [s.pendingWithdrawals EXCEPT ![listing.seller] = @ + price]
    IN
    IF m # "ok" THEN Fail(s, m)
    ELSE IF listing.seller = NoAddr THEN Fail(s, "NotListed")
    ELSE IF value < listing.price THEN Fail(s, "InsufficientPayment")
    ELSE IF ~transferAllowed(s, Engine, Engine, tokenId) THEN Fail(s, "TransferRefused")
    ELSE Ok([transferFrom(s, sender, tokenId) EXCEPT
                !.listings[tokenId].active = FALSE,
                !.pendingWithdrawals =
                    IF excess > 0 THEN [credited EXCEPT ![sender] = @ + excess]
                    ELSE credited,
                !.balance = @ + value])

\* Mutant: buyCard keeps an overpayment without crediting it to the buyer.
buyCardDropsExcess(s, sender, tokenId, value) ==
    LET m == Modifiers(s, TRUE)
        listing == s.listings[tokenId]
    IN
    IF m # "ok" THEN Fail(s, m)
    ELSE IF ~listing.active THEN Fail(s, "NotListed")
    ELSE IF value < listing.price THEN Fail(s, "InsufficientPayment")
    ELSE IF ~transferAllowed(s, Engine, Engine, tokenId) THEN Fail(s, "TransferRefused")
    ELSE Ok([transferFrom(s, sender, tokenId) EXCEPT
                !.listings[tokenId].active = FALSE,
                !.pendingWithdrawals[listing.seller] = @ + listing.price,
                !.balance = @ + value])


buyCard(s, sender, tokenId, value) ==
    LET m == Modifiers(s, TRUE)
        listing == s.listings[tokenId]
        price == listing.price
        excess == value - price
        credited == [s.pendingWithdrawals EXCEPT ![listing.seller] = @ + price]
    IN
    IF m # "ok" THEN Fail(s, m)
    ELSE IF ~listing.active THEN Fail(s, "NotListed")
    ELSE IF value < listing.price THEN Fail(s, "InsufficientPayment")
    ELSE IF ~transferAllowed(s, Engine, Engine, tokenId) THEN Fail(s, "TransferRefused")
    ELSE Ok([transferFrom(s, sender, tokenId) EXCEPT
                !.listings[tokenId].active = FALSE,
                !.pendingWithdrawals =
                    IF excess > 0 THEN [credited EXCEPT ![sender] = @ + excess]
                    ELSE credited,
                !.balance = @ + value])

\* ---------------------------------------------------------------- auctions

\* Mutant: startAuction turns the two limit durations away as well.
startAuctionStrictLimits(s, sender, tokenId, startingPrice, duration, t) ==
    LET m == Modifiers(s, TRUE) IN
    IF m # "ok" THEN Fail(s, m)
    ELSE IF ownerOf(s, tokenId) # sender THEN Fail(s, "NotCardOwner")
    ELSE IF startingPrice = 0 THEN Fail(s, "InvalidStartingPrice")
    ELSE IF duration <= MIN_AUCTION_DURATION THEN Fail(s, "DurationTooShort")
    ELSE IF duration >= MAX_AUCTION_DURATION THEN Fail(s, "DurationTooLong")
    ELSE IF s.auctions[tokenId].endTime # 0 /\ ~s.auctions[tokenId].settled
        THEN Fail(s, "AuctionAlreadyExists")
    ELSE IF ~transferAllowed(s, Engine, sender, tokenId) THEN Fail(s, "TransferRefused")
    ELSE Ok([transferFrom(s, Engine, tokenId) EXCEPT
                !.auctions[tokenId] =
                    [seller |-> sender, startingPrice |-> startingPrice,
                     highestBid |-> 0, highestBidder |-> NoAddr,
                     endTime |-> t + duration, settled |-> FALSE]])

\* Mutant: startAuction leaves the bid fields of the previous auction in place.
startAuctionKeepsBid(s, sender, tokenId, startingPrice, duration, t) ==
    LET m == Modifiers(s, TRUE) IN
    IF m # "ok" THEN Fail(s, m)
    ELSE IF ownerOf(s, tokenId) # sender THEN Fail(s, "NotCardOwner")
    ELSE IF startingPrice = 0 THEN Fail(s, "InvalidStartingPrice")
    ELSE IF duration < MIN_AUCTION_DURATION THEN Fail(s, "DurationTooShort")
    ELSE IF duration > MAX_AUCTION_DURATION THEN Fail(s, "DurationTooLong")
    ELSE IF s.auctions[tokenId].endTime # 0 /\ ~s.auctions[tokenId].settled
        THEN Fail(s, "AuctionAlreadyExists")
    ELSE IF ~transferAllowed(s, Engine, sender, tokenId) THEN Fail(s, "TransferRefused")
    ELSE Ok([transferFrom(s, Engine, tokenId) EXCEPT
                !.auctions[tokenId].seller = sender,
                !.auctions[tokenId].startingPrice = startingPrice,
                !.auctions[tokenId].endTime = t + duration,
                !.auctions[tokenId].settled = FALSE])

\* Mutant: startAuction takes a starting price of 0.
startAuctionAnyPrice(s, sender, tokenId, startingPrice, duration, t) ==
    LET m == Modifiers(s, TRUE) IN
    IF m # "ok" THEN Fail(s, m)
    ELSE IF ownerOf(s, tokenId) # sender THEN Fail(s, "NotCardOwner")
    ELSE IF duration < MIN_AUCTION_DURATION THEN Fail(s, "DurationTooShort")
    ELSE IF duration > MAX_AUCTION_DURATION THEN Fail(s, "DurationTooLong")
    ELSE IF s.auctions[tokenId].endTime # 0 /\ ~s.auctions[tokenId].settled
        THEN Fail(s, "AuctionAlreadyExists")
    ELSE IF ~transferAllowed(s, Engine, sender, tokenId) THEN Fail(s, "TransferRefused")
    ELSE Ok([transferFrom(s, Engine, tokenId) EXCEPT
                !.auctions[tokenId] =
                    [seller |-> sender, startingPrice |-> startingPrice,
                     highestBid |-> 0, highestBidder |-> NoAddr,
                     endTime |-> t + duration, settled |-> FALSE]])

\* Mutant: startAuction clears the commitments stored for the asset.
startAuctionClearsCommitments(s, sender, tokenId, startingPrice, duration, t) ==
    LET m == Modifiers(s, TRUE) IN
    IF m # "ok" THEN Fail(s, m)
    ELSE IF ownerOf(s, tokenId) # sender THEN Fail(s, "NotCardOwner")
    ELSE IF startingPrice = 0 THEN Fail(s, "InvalidStartingPrice")
    ELSE IF duration < MIN_AUCTION_DURATION THEN Fail(s, "DurationTooShort")
    ELSE IF duration > MAX_AUCTION_DURATION THEN Fail(s, "DurationTooLong")
    ELSE IF s.auctions[tokenId].endTime # 0 /\ ~s.auctions[tokenId].settled
        THEN Fail(s, "AuctionAlreadyExists")
    ELSE IF ~transferAllowed(s, Engine, sender, tokenId) THEN Fail(s, "TransferRefused")
    ELSE Ok([transferFrom(s, Engine, tokenId) EXCEPT
                !.auctions[tokenId] =
                    [seller |-> sender, startingPrice |-> startingPrice,
                     highestBid |-> 0, highestBidder |-> NoAddr,
                     endTime |-> t + duration, settled |-> FALSE],
                !.bidCommitments[tokenId] = [p \in Parties |-> ZeroHash]])


startAuction(s, sender, tokenId, startingPrice, duration, t) ==
    LET m == Modifiers(s, TRUE) IN
    IF m # "ok" THEN Fail(s, m)
    ELSE IF ownerOf(s, tokenId) # sender THEN Fail(s, "NotCardOwner")
    ELSE IF startingPrice = 0 THEN Fail(s, "InvalidStartingPrice")
    ELSE IF duration < MIN_AUCTION_DURATION THEN Fail(s, "DurationTooShort")
    ELSE IF duration > MAX_AUCTION_DURATION THEN Fail(s, "DurationTooLong")
    ELSE IF s.auctions[tokenId].endTime # 0 /\ ~s.auctions[tokenId].settled
        THEN Fail(s, "AuctionAlreadyExists")
    ELSE IF ~transferAllowed(s, Engine, sender, tokenId) THEN Fail(s, "TransferRefused")
    ELSE Ok([transferFrom(s, Engine, tokenId) EXCEPT
                !.auctions[tokenId] =
                    [seller |-> sender, startingPrice |-> startingPrice,
                     highestBid |-> 0, highestBidder |-> NoAddr,
                     endTime |-> t + duration, settled |-> FALSE]])


\* Mutant: a minimum bid without the increment.
minBidNoIncrement(auction) ==
    IF auction.highestBidder = NoAddr THEN auction.startingPrice
    ELSE auction.highestBid

\* Mutant: the increment of placeBid rounded up.
minBidCeiling(auction) ==
    IF auction.highestBidder = NoAddr THEN auction.startingPrice
    ELSE auction.highestBid
             + ((auction.highestBid * MIN_BID_INCREMENT_BPS + 9999) \div 10000)

\* Mutant: the minimum bid stays at the starting price whatever the highest bid.
minBidFromStart(auction) == auction.startingPrice

\* The minimum admissible bid as placeBid computes it.
minBid(auction) ==
    IF auction.highestBidder = NoAddr THEN auction.startingPrice
    ELSE auction.highestBid + ((auction.highestBid * MIN_BID_INCREMENT_BPS) \div 10000)

\* Mutant: the minimum of placeBidReveal without the increment.
minBidRevealNoIncrement(auction) ==
    IF auction.highestBidder = NoAddr THEN auction.startingPrice
    ELSE auction.highestBid

\* The minimum admissible bid as placeBidReveal computes it.
minBidReveal(auction) ==
    IF auction.highestBidder = NoAddr THEN auction.startingPrice
    ELSE auction.highestBid + ((auction.highestBid * MIN_BID_INCREMENT_BPS) \div 10000)


\* Mutant: every bid resets the end time to a window from now.
extendedEndTimeAlways(endTime, t) == t + AUCTION_EXTENSION_DURATION

\* The anti-sniping step of placeBid: the end time after a bid accepted at time t.
extendedEndTime(endTime, t) ==
    IF endTime - t <= AUCTION_EXTENSION_DURATION THEN t + AUCTION_EXTENSION_DURATION
    ELSE endTime

\* The anti-sniping step of placeBidReveal.
extendedEndTimeReveal(endTime, t) ==
    IF endTime - t <= AUCTION_EXTENSION_DURATION THEN t + AUCTION_EXTENSION_DURATION
    ELSE endTime

\* Mutant: placeBid still takes a bid at the very second the auction ends.
placeBidAtEnd(s, sender, tokenId, value, t) ==
    LET m == Modifiers(s, TRUE)
        auction == s.auctions[tokenId]
    IN
    IF m # "ok" THEN Fail(s, m)
    ELSE IF auction.endTime = 0 THEN Fail(s, "NotListed")
    ELSE IF t > auction.endTime THEN Fail(s, "AuctionEnded")
    ELSE IF auction.settled THEN Fail(s, "AuctionAlreadySettled")
    ELSE IF value < auction.startingPrice THEN Fail(s, "BidBelowStartingPrice")
    ELSE IF value < minBid(auction) THEN Fail(s, "BidBelowMinimumIncrement")
    ELSE Ok([s EXCEPT
                !.pendingWithdrawals =
                    IF auction.highestBidder # NoAddr
                    THEN [@ EXCEPT ![auction.highestBidder] = @ + auction.highestBid]
                    ELSE @,
                !.auctions[tokenId].highestBid = value,
                !.auctions[tokenId].highestBidder = sender,
                !.auctions[tokenId].endTime = extendedEndTime(auction.endTime, t),
                !.balance = @ + value])

\* Mutant: placeBid replaces the highest bid without crediting the outbid bidder.
placeBidNoRefund(s, sender, tokenId, value, t) ==
    LET m == Modifiers(s, TRUE)
        auction == s.auctions[tokenId]
    IN
    IF m # "ok" THEN Fail(s, m)
    ELSE IF auction.endTime = 0 THEN Fail(s, "NotListed")
    ELSE IF t >= auction.endTime THEN Fail(s, "AuctionEnded")
    ELSE IF auction.settled THEN Fail(s, "AuctionAlreadySettled")
    ELSE IF value < auction.startingPrice THEN Fail(s, "BidBelowStartingPrice")
    ELSE IF value < minBid(auction) THEN Fail(s, "BidBelowMinimumIncrement")
    ELSE Ok([s EXCEPT
                !.auctions[tokenId].highestBid = value,
                !.auctions[tokenId].highestBidder = sender,
                !.auctions[tokenId].endTime = extendedEndTime(auction.endTime, t),
                !.balance = @ + value])

\* Mutant: an accepted bid extends every unsettled auction, not only its own.
placeBidExtendsAll(s, sender, tokenId, value, t) ==
    LET m == Modifiers(s, TRUE)
        auction == s.auctions[tokenId]
    IN
    IF m # "ok" THEN Fail(s, m)
    ELSE IF auction.endTime = 0 THEN Fail(s, "NotListed")
    ELSE IF t >= auction.endTime THEN Fail(s, "AuctionEnded")
    ELSE IF auction.settled THEN Fail(s, "AuctionAlreadySettled")
    ELSE IF value < auction.startingPrice THEN Fail(s, "BidBelowStartingPrice")
    ELSE IF value < minBid(auction) THEN Fail(s, "BidBelowMinimumIncrement")
    ELSE Ok([s EXCEPT
                !.pendingWithdrawals =
                    IF auction.highestBidder # NoAddr
                    THEN [@ EXCEPT ![auction.highestBidder] = @ + auction.highestBid]
                    ELSE @,
                !.auctions =
                    [b \in Assets |->
                        IF b = tokenId
                        THEN [auction EXCEPT
                                 !.highestBid = value,
                                 !.highestBidder = sender,
                                 !.endTime = extendedEndTime(auction.endTime, t)]
                        ELSE IF s.auctions[b].endTime # 0 /\ ~s.auctions[b].settled
                        THEN [s.auctions[b] EXCEPT
                                 !.endTime = extendedEndTime(auction.endTime, t)]
                        ELSE s.auctions[b]],
                !.balance = @ + value])


placeBid(s, sender, tokenId, value, t) ==
    LET m == Modifiers(s, TRUE)
        auction == s.auctions[tokenId]
    IN
    IF m # "ok" THEN Fail(s, m)
    ELSE IF auction.endTime = 0 THEN Fail(s, "NotListed")
    ELSE IF t >= auction.endTime THEN Fail(s, "AuctionEnded")
    ELSE IF auction.settled THEN Fail(s, "AuctionAlreadySettled")
    ELSE IF value < auction.startingPrice THEN Fail(s, "BidBelowStartingPrice")
    ELSE IF value < minBid(auction) THEN Fail(s, "BidBelowMinimumIncrement")
    ELSE Ok([s EXCEPT
                !.pendingWithdrawals =
                    IF auction.highestBidder # NoAddr
                    THEN [@ EXCEPT ![auction.highestBidder] = @ + auction.highestBid]
                    ELSE @,
                !.auctions[tokenId].highestBid = value,
                !.auctions[tokenId].highestBidder = sender,
                !.auctions[tokenId].endTime = extendedEndTime(auction.endTime, t),
                !.balance = @ + value])

\* keccak256(abi.encodePacked(msg.sender, tokenId, amount, nonce)): a
\* collision-free digest of the four packed fields.
keccak256(sender, tokenId, amount, nonce) == <<sender, tokenId, amount, nonce>>

\* Mutant: commitBid keeps a commitment that is already stored.
commitBidKeepsFirst(s, sender, tokenId, commitment, t) ==
    LET m == Modifiers(s, TRUE)
        auction == s.auctions[tokenId]
    IN
    IF m # "ok" THEN Fail(s, m)
    ELSE IF auction.endTime = 0 THEN Fail(s, "NotListed")
    ELSE IF t >= auction.endTime THEN Fail(s, "AuctionEnded")
    ELSE IF auction.settled THEN Fail(s, "AuctionAlreadySettled")
    ELSE IF s.bidCommitments[tokenId][sender] # ZeroHash THEN Ok(s)
    ELSE Ok([s EXCEPT !.bidCommitments[tokenId][sender] = commitment])


commitBid(s, sender, tokenId, commitment, t) ==
    LET m == Modifiers(s, TRUE)
        auction == s.auctions[tokenId]
    IN
    IF m # "ok" THEN Fail(s, m)
    ELSE IF auction.endTime = 0 THEN Fail(s, "NotListed")
    ELSE IF t >= auction.endTime THEN Fail(s, "AuctionEnded")
    ELSE IF auction.settled THEN Fail(s, "AuctionAlreadySettled")
    ELSE Ok([s EXCEPT !.bidCommitments[tokenId][sender] = commitment])

\* Mutant: placeBidReveal only asks that some commitment is stored.
placeBidRevealAnyCommitment(s, sender, tokenId, amount, nonce, value, t) ==
    LET m == Modifiers(s, TRUE)
        auction == s.auctions[tokenId]
        excess == value - amount
        refunded ==
            IF auction.highestBidder # NoAddr
            THEN [s.pendingWithdrawals EXCEPT
                     ![auction.highestBidder] = @ + auction.highestBid]
            ELSE s.pendingWithdrawals
    IN
    IF m # "ok" THEN Fail(s, m)
    ELSE IF s.bidCommitments[tokenId][sender] = ZeroHash THEN Fail(s, "InvalidCommitment")
    ELSE IF auction.endTime = 0 THEN Fail(s, "NotListed")
    ELSE IF t >= auction.endTime THEN Fail(s, "AuctionEnded")
    ELSE IF auction.settled THEN Fail(s, "AuctionAlreadySettled")
    ELSE IF value < amount THEN Fail(s, "InsufficientPayment")
    ELSE IF amount < auction.startingPrice THEN Fail(s, "BidBelowStartingPrice")
    ELSE IF amount < minBidReveal(auction) THEN Fail(s, "BidBelowMinimumIncrement")
    ELSE Ok([s EXCEPT
                !.bidCommitments[tokenId][sender] = ZeroHash,
                !.pendingWithdrawals =
                    IF excess > 0 THEN [refunded EXCEPT ![sender] = @ + excess]
                    ELSE refunded,
                !.auctions[tokenId].highestBid = amount,
                !.auctions[tokenId].highestBidder = sender,
                !.auctions[tokenId].endTime = extendedEndTimeReveal(auction.endTime, t),
                !.balance = @ + value])

\* Mutant: placeBidReveal leaves the revealed commitment stored.
placeBidRevealKeepsCommitment(s, sender, tokenId, amount, nonce, value, t) ==
    LET m == Modifiers(s, TRUE)
        expected == keccak256(sender, tokenId, amount, nonce)
        auction == s.auctions[tokenId]
        excess == value - amount
        refunded ==
            IF auction.highestBidder # NoAddr
            THEN [s.pendingWithdrawals EXCEPT
                     ![auction.highestBidder] = @ + auction.highestBid]
            ELSE s.pendingWithdrawals
    IN
    IF m # "ok" THEN Fail(s, m)
    ELSE IF s.bidCommitments[tokenId][sender] # expected THEN Fail(s, "InvalidCommitment")
    ELSE IF auction.endTime = 0 THEN Fail(s, "NotListed")
    ELSE IF t >= auction.endTime THEN Fail(s, "AuctionEnded")
    ELSE IF auction.settled THEN Fail(s, "AuctionAlreadySettled")
    ELSE IF value < amount THEN Fail(s, "InsufficientPayment")
    ELSE IF amount < auction.startingPrice THEN Fail(s, "BidBelowStartingPrice")
    ELSE IF amount < minBidReveal(auction) THEN Fail(s, "BidBelowMinimumIncrement")
    ELSE Ok([s EXCEPT
                !.pendingWithdrawals =
                    IF excess > 0 THEN [refunded EXCEPT ![sender] = @ + excess]
                    ELSE refunded,
                !.auctions[tokenId].highestBid = amount,
                !.auctions[tokenId].highestBidder = sender,
                !.auctions[tokenId].endTime = extendedEndTimeReveal(auction.endTime, t),
                !.balance = @ + value])

\* Mutant: a reveal that matched and is then rejected has used up its commitment.
placeBidRevealConsumesOnReject(s, sender, tokenId, amount, nonce, value, t) ==
    LET m == Modifiers(s, TRUE)
        expected == keccak256(sender, tokenId, amount, nonce)
        auction == s.auctions[tokenId]
        excess == value - amount
        cleared == [s EXCEPT !.bidCommitments[tokenId][sender] = ZeroHash]
        refunded ==
            IF auction.highestBidder # NoAddr
            THEN [s.pendingWithdrawals EXCEPT
                     ![auction.highestBidder] = @ + auction.highestBid]
            ELSE s.pendingWithdrawals
    IN
    IF m # "ok" THEN Fail(s, m)
    ELSE IF s.bidCommitments[tokenId][sender] # expected THEN Fail(s, "InvalidCommitment")
    ELSE IF auction.endTime = 0 THEN Fail(cleared, "NotListed")
    ELSE IF t >= auction.endTime THEN Fail(cleared, "AuctionEnded")
    ELSE IF auction.settled THEN Fail(cleared, "AuctionAlreadySettled")
    ELSE IF value < amount THEN Fail(cleared, "InsufficientPayment")
    ELSE IF amount < auction.startingPrice THEN Fail(cleared, "BidBelowStartingPrice")
    ELSE IF amount < minBidReveal(auction) THEN Fail(cleared, "BidBelowMinimumIncrement")
    ELSE Ok([s EXCEPT
                !.bidCommitments[tokenId][sender] = ZeroHash,
                !.pendingWithdrawals =
                    IF excess > 0 THEN [refunded EXCEPT ![sender] = @ + excess]
                    ELSE refunded,
                !.auctions[tokenId].highestBid = amount,
                !.auctions[tokenId].highestBidder = sender,
                !.auctions[tokenId].endTime = extendedEndTimeReveal(auction.endTime, t),
                !.balance = @ + value])


placeBidReveal(s, sender, tokenId, amount, nonce, value, t) ==
    LET m == Modifiers(s, TRUE)
        expected == keccak256(sender, tokenId, amount, nonce)
        auction == s.auctions[tokenId]
        excess == value - amount
        refunded ==
            IF auction.highestBidder # NoAddr
            THEN [s.pendingWithdrawals EXCEPT
                     ![auction.highestBidder] = @ + auction.highestBid]
            ELSE s.pendingWithdrawals
    IN
    IF m # "ok" THEN Fail(s, m)
    ELSE IF s.bidCommitments[tokenId][sender] # expected THEN Fail(s, "InvalidCommitment")
    ELSE IF auction.endTime = 0 THEN Fail(s, "NotListed")
    ELSE IF t >= auction.endTime THEN Fail(s, "AuctionEnded")
    ELSE IF auction.settled THEN Fail(s, "AuctionAlreadySettled")
    ELSE IF value < amount THEN Fail(s, "InsufficientPayment")
    ELSE IF amount < auction.startingPrice THEN Fail(s, "BidBelowStartingPrice")
    ELSE IF amount < minBidReveal(auction) THEN Fail(s, "BidBelowMinimumIncrement")
    ELSE Ok([s EXCEPT
                !.bidCommitments[tokenId][sender] = ZeroHash,
                !.pendingWithdrawals =
                    IF excess > 0 THEN [refunded EXCEPT ![sender] = @ + excess]
                    ELSE refunded,
                !.auctions[tokenId].highestBid = amount,
                !.auctions[tokenId].highestBidder = sender,
                !.auctions[tokenId].endTime = extendedEndTimeReveal(auction.endTime, t),
                !.balance = @ + value])

\* Mutant: settleAuction hands the asset to the winner without crediting the seller.
settleAuctionNoCredit(s, sender, tokenId, t) ==
    LET m == Modifiers(s, TRUE)
        auction == s.auctions[tokenId]
    IN
    IF m # "ok" THEN Fail(s, m)
    ELSE IF auction.endTime = 0 THEN Fail(s, "NotListed")
    ELSE IF t < auction.endTime THEN Fail(s, "AuctionNotEnded")
    ELSE IF auction.settled THEN Fail(s, "AlreadySettled")
    ELSE IF ~transferAllowed(s, Engine, Engine, tokenId) THEN Fail(s, "TransferRefused")
    ELSE IF auction.highestBidder # NoAddr
        THEN Ok([transferFrom(s, auction.highestBidder, tokenId) EXCEPT
                    !.auctions[tokenId].settled = TRUE])
    ELSE Ok([transferFrom(s, auction.seller, tokenId) EXCEPT
                !.auctions[tokenId].settled = TRUE])

\* Mutant: settleAuction does not look at the settled flag.
settleAuctionAgain(s, sender, tokenId, t) ==
    LET m == Modifiers(s, TRUE)
        auction == s.auctions[tokenId]
    IN
    IF m # "ok" THEN Fail(s, m)
    ELSE IF auction.endTime = 0 THEN Fail(s, "NotListed")
    ELSE IF t < auction.endTime THEN Fail(s, "AuctionNotEnded")
    ELSE IF ~transferAllowed(s, Engine, Engine, tokenId) THEN Fail(s, "TransferRefused")
    ELSE IF auction.highestBidder # NoAddr
        THEN Ok([transferFrom(s, auction.highestBidder, tokenId) EXCEPT
                    !.auctions[tokenId].settled = TRUE,
                    !.pendingWithdrawals[auction.seller] = @ + auction.highestBid])
    ELSE Ok([transferFrom(s, auction.seller, tokenId) EXCEPT
                !.auctions[tokenId].settled = TRUE])

\* Mutant: settleAuction pays and moves the asset without marking the auction settled.
settleAuctionLeavesOpen(s, sender, tokenId, t) ==
    LET m == Modifiers(s, TRUE)
        auction == s.auctions[tokenId]
    IN
    IF m # "ok" THEN Fail(s, m)
    ELSE IF auction.endTime = 0 THEN Fail(s, "NotListed")
    ELSE IF t < auction.endTime THEN Fail(s, "AuctionNotEnded")
    ELSE IF auction.settled THEN Fail(s, "AlreadySettled")
    ELSE IF ~transferAllowed(s, Engine, Engine, tokenId) THEN Fail(s, "TransferRefused")
    ELSE IF auction.highestBidder # NoAddr
        THEN Ok([transferFrom(s, auction.highestBidder, tokenId) EXCEPT
                    !.pendingWithdrawals[auction.seller] = @ + auction.highestBid])
    ELSE Ok(transferFrom(s, auction.seller, tokenId))

\* Mutant: settleAuction is allowed one second before endTime.
settleAuctionEarly(s, sender, tokenId, t) ==
    LET m == Modifiers(s, TRUE)
        auction == s.auctions[tokenId]
    IN
    IF m # "ok" THEN Fail(s, m)
    ELSE IF auction.endTime = 0 THEN Fail(s, "NotListed")
    ELSE IF t + 1 < auction.endTime THEN Fail(s, "AuctionNotEnded")
    ELSE IF auction.settled THEN Fail(s, "AlreadySettled")
    ELSE IF ~transferAllowed(s, Engine, Engine, tokenId) THEN Fail(s, "TransferRefused")
    ELSE IF auction.highestBidder # NoAddr
        THEN Ok([transferFrom(s, auction.highestBidder, tokenId) EXCEPT
                    !.auctions[tokenId].settled = TRUE,
                    !.pendingWithdrawals[auction.seller] = @ + auction.highestBid])
    ELSE Ok([transferFrom(s, auction.seller, tokenId) EXCEPT
                !.auctions[tokenId].settled = TRUE])

\* Mutant: settleAuction credits the seller and hands the asset back to the seller.
settleAuctionToSeller(s, sender, tokenId, t) ==
    LET m == Modifiers(s, TRUE)
        auction == s.auctions[tokenId]
    IN
    IF m # "ok" THEN Fail(s, m)
    ELSE IF auction.endTime = 0 THEN Fail(s, "NotListed")
    ELSE IF t < auction.endTime THEN Fail(s, "AuctionNotEnded")
    ELSE IF auction.settled THEN Fail(s, "AlreadySettled")
    ELSE IF ~transferAllowed(s, Engine, Engine, tokenId) THEN Fail(s, "TransferRefused")
    ELSE IF auction.highestBidder # NoAddr
        THEN Ok([transferFrom(s, auction.seller, tokenId) EXCEPT
                    !.auctions[tokenId].settled = TRUE,
                    !.pendingWithdrawals[auction.seller] = @ + auction.highestBid])
    ELSE Ok([transferFrom(s, auction.seller, tokenId) EXCEPT
                !.auctions[tokenId].settled = TRUE])

\* Mutant: only the seller may settle.
settleAuctionSellerOnly(s, sender, tokenId, t) ==
    LET m == Modifiers(s, TRUE)
        auction == s.auctions[tokenId]
    IN
    IF m # "ok" THEN Fail(s, m)
    ELSE IF auction.endTime = 0 THEN Fail(s, "NotListed")
    ELSE IF sender # auction.seller THEN Fail(s, "NotSeller")
    ELSE IF t < auction.endTime THEN Fail(s, "AuctionNotEnded")
    ELSE IF auction.settled THEN Fail(s, "AlreadySettled")
    ELSE IF ~transferAllowed(s, Engine, Engine, tokenId) THEN Fail(s, "TransferRefused")
    ELSE IF auction.highestBidder # NoAddr
        THEN Ok([transferFrom(s, auction.highestBidder, tokenId) EXCEPT
                    !.auctions[tokenId].settled = TRUE,
                    !.pendingWithdrawals[auction.seller] = @ + auction.highestBid])
    ELSE Ok([transferFrom(s, auction.seller, tokenId) EXCEPT
                !.auctions[tokenId].settled = TRUE])


settleAuction(s, sender, tokenId, t) ==
    LET m == Modifiers(s, TRUE)
        auction == s.auctions[tokenId]
    IN
    IF m # "ok" THEN Fail(s, m)
    ELSE IF auction.endTime = 0 THEN Fail(s, "NotListed")
    ELSE IF t < auction.endTime THEN Fail(s, "AuctionNotEnded")
    ELSE IF auction.settled THEN Fail(s, "AlreadySettled")
    ELSE IF ~transferAllowed(s, Engine, Engine, tokenId) THEN Fail(s, "TransferRefused")
    ELSE IF auction.highestBidder # NoAddr
        THEN Ok([transferFrom(s, auction.highestBidder, tokenId) EXCEPT
                    !.auctions[tokenId].settled = TRUE,
                    !.pendingWithdrawals[auction.seller] = @ + auction.highestBid])
    ELSE Ok([transferFrom(s, auction.seller, tokenId) EXCEPT
                !.auctions[tokenId].settled = TRUE])

\* ------------------------------------------------------------------ ledger

\* Mutant: withdraw with no guard that sends before it zeroes the balance.
withdrawSendsFirst(s, sender) ==
    LET amount == s.pendingWithdrawals[sender] IN
    IF amount = 0 THEN Fail(s, "NothingToWithdraw")
    ELSE IF s.balance < amount THEN Fail(s, "TransferFailed")
    ELSE Ok([s EXCEPT !.balance = @ - amount])

\* Mutant: withdraw pays without zeroing the ledger balance.
withdrawKeepsLedger(s, sender) ==
    LET m == Modifiers(s, FALSE)
        amount == s.pendingWithdrawals[sender]
    IN
    IF m # "ok" THEN Fail(s, m)
    ELSE IF amount = 0 THEN Fail(s, "NothingToWithdraw")
    ELSE IF s.balance < amount THEN Fail(s, "TransferFailed")
    ELSE Ok([s EXCEPT
                !.status = ENTERED,
                !.balance = @ - amount])

\* Mutant: withdraw pays the caller and clears every party's ledger balance.
withdrawClearsLedger(s, sender) ==
    LET m == Modifiers(s, FALSE)
        amount == s.pendingWithdrawals[sender]
    IN
    IF m # "ok" THEN Fail(s, m)
    ELSE IF amount = 0 THEN Fail(s, "NothingToWithdraw")
    ELSE IF s.balance < amount THEN Fail(s, "TransferFailed")
    ELSE Ok([s EXCEPT
                !.status = ENTERED,
                !.pendingWithdrawals = [p \in Parties |-> 0],
                !.balance = @ - amount])

\* withdraw up to its external call: the modifier, the balance check, the
\* zeroing, and the ether leaving with the call.  The state returned is
\* the one the recipient's code runs against.
withdraw(s, sender) ==
    LET m == Modifiers(s, FALSE)
        amount == s.pendingWithdrawals[sender]
    IN
    IF m # "ok" THEN Fail(s, m)
    ELSE IF amount = 0 THEN Fail(s, "NothingToWithdraw")
    ELSE IF s.balance < amount THEN Fail(s, "TransferFailed")
    ELSE Ok([s EXCEPT
                !.status = ENTERED,
                !.pendingWithdrawals[sender] = 0,
                !.balance = @ - amount])

\* ------------------------------------------------------------ pause switch
pause(s, sender) ==
    IF ~onlyOwner(sender) THEN Fail(s, "OwnableUnauthorizedAccount")
    ELSE IF s.paused THEN Fail(s, "EnforcedPause")
    ELSE Ok([s EXCEPT !.paused = TRUE])

unpause(s, sender) ==
    IF ~onlyOwner(sender) THEN Fail(s, "OwnableUnauthorizedAccount")
    ELSE IF ~s.paused THEN Fail(s, "ExpectedPause")
    ELSE Ok([s EXCEPT !.paused = FALSE])

\* ------------------------------------------------------------- transitions

\* The order in which the body of each operation, once its checks have
\* passed, writes the contract's own storage ("store") and calls out to the
\* NFT contract or to the recipient of funds ("call").
EffectOrder(op) ==
    CASE op = "listCard" -> <<"call", "store">>
      [] op = "unlistCard" -> <<"store", "call">>
      [] op = "buyCard" -> <<"store", "store", "store", "call">>
      [] op = "startAuction" -> <<"call", "store">>
      [] op = "placeBid" -> <<"store", "store", "store", "store">>
      [] op = "commitBid" -> <<"store">>
      [] op = "placeBidReveal" -> <<"store", "store", "store", "store", "store", "store">>
      [] op = "settleAuction" -> <<"store", "store", "call">>
      [] op = "withdraw" -> <<"store", "call">>
      [] OTHER -> <<>>


NoSent == [p \in Parties |-> 0]

Depth == Len(callStack)

Called(op, sender, tokenId, value, arg, arg2, err) ==
    [op |-> op, sender |-> sender, tokenId |-> tokenId, value |-> value,
     arg |-> arg, arg2 |-> arg2, err |-> err, depth |-> Depth]

\* The storage after a call: the outcome's state (the state before, on a revert).
Store(s) ==
    /\ listings' = s.listings
    /\ auctions' = s.auctions
    /\ pendingWithdrawals' = s.pendingWithdrawals
    /\ bidCommitments' = s.bidCommitments
    /\ status' = s.status
    /\ paused' = s.paused
    /\ balance' = s.balance
    /\ nftOwner' = s.nftOwner
    /\ nftApproved' = s.nftApproved
    /\ nftPaused' = s.nftPaused

\* A call that runs to its end in one step, made by an externally owned
\* account (callStack empty) or by the code of a party that is being paid.
\* A reverted call leaves no trace: nothing changes.
Call(r, rec) ==
    /\ Store(r.st)
    /\ last' = IF r.err = "ok" THEN rec ELSE last
    /\ UNCHANGED <<now, callStack, sent>>

Init ==
    /\ listings = [t \in Assets |-> NoListing]
    /\ auctions = [t \in Assets |-> NoAuction]
    /\ pendingWithdrawals = [p \in Parties |-> 0]
    /\ bidCommitments = [t \in Assets |-> [p \in Parties |-> ZeroHash]]
    /\ status = NOT_ENTERED
    /\ paused = FALSE
    /\ balance = 0
    /\ nftOwner = [t \in Assets |-> IF t = 1 THEN "alice" ELSE "bob"]
    /\ nftApproved = [t \in Assets |-> NoAddr]
    /\ nftPaused = FALSE
    /\ now = 1
    /\ callStack = <<>>
    /\ sent = NoSent
    /\ last = Called("deploy", owner, 0, 0, 0, 0, "ok")

ListCard(sender, tokenId, price) ==
    LET r == listCard(St, sender, tokenId, price) IN
    Call(r, Called("listCard", sender, tokenId, 0, price, 0, r.err))

UnlistCard(sender, tokenId) ==
    LET r == unlistCard(St, sender, tokenId) IN
    Call(r, Called("unlistCard", sender, tokenId, 0, 0, 0, r.err))

BuyCard(sender, tokenId, value) ==
    LET r == buyCard(St, sender, tokenId, value) IN
    Call(r, Called("buyCard", sender, tokenId, value, 0, 0, r.err))

StartAuction(sender, tokenId, startingPrice, duration) ==
    LET r == startAuction(St, sender, tokenId, startingPrice, duration, now) IN
    Call(r, Called("startAuction", sender, tokenId, 0, startingPrice, duration, r.err))

PlaceBid(sender, tokenId, value) ==
    LET r == placeBid(St, sender, tokenId, value, now) IN
    Call(r, Called("placeBid", sender, tokenId, value, 0, 0, r.err))

CommitBid(sender, tokenId, commitment) ==
    LET r == commitBid(St, sender, tokenId, commitment, now) IN
    Call(r, Called("commitBid", sender, tokenId, 0, commitment, 0, r.err))

PlaceBidReveal(sender, tokenId, amount, nonce, value) ==
    LET r == placeBidReveal(St, sender, tokenId, amount, nonce, value, now) IN
    Call(r, Called("placeBidReveal", sender, tokenId, value, amount, nonce, r.err))

SettleAuction(sender, tokenId) ==
    LET r == settleAuction(St, sender, tokenId, now) IN
    Call(r, Called("settleAuction", sender, tokenId, 0, 0, 0, r.err))

Pause(sender) ==
    LET r == pause(St, sender) IN
    Call(r, Called("pause", sender, 0, 0, 0, 0, r.err))

Unpause(sender) ==
    LET r == unpause(St, sender) IN
    Call(r, Called("unpause", sender, 0, 0, 0, 0, r.err))

\* withdraw up to its call to the recipient.  A call that passes its checks
\* stays open while the recipient's code runs: the frame keeps what a revert
\* restores.
Withdraw(sender) ==
    LET r == withdraw(St, sender)
        amount == pendingWithdrawals[sender]
    IN
    /\ Store(r.st)
    /\ UNCHANGED now
    /\ IF r.err = "ok"
       THEN /\ Depth < MaxDepth
            /\ callStack' = Append(callStack,
                   [sender |-> sender, amount |-> amount, saved |-> St,
                    savedSent |-> sent])
            /\ sent' = [sent EXCEPT ![sender] = @ + amount]
            /\ last' = Called("withdraw", sender, 0, amount, 0, 0, "dispatching")
       ELSE UNCHANGED <<callStack, sent, last>>

\* The recipient's code returns normally: withdraw emits Withdrawal and ends
\* (the nonReentrant modifier resets _status).
DispatchAccept ==
    /\ callStack # <<>>
    /\ LET frame == callStack[Depth] IN
        /\ callStack' = SubSeq(callStack, 1, Depth - 1)
        /\ status' = NOT_ENTERED
        /\ sent' = IF Depth = 1 THEN NoSent ELSE sent
        /\ last' = [Called("withdraw", frame.sender, 0, frame.amount, 0, 0, "ok")
                        EXCEPT !.depth = Depth - 1]
    /\ UNCHANGED <<listings, auctions, pendingWithdrawals, bidCommitments, paused,
                   balance, nftOwner, nftApproved, nftPaused, now>>

\* Mutant: a refused dispatch ends withdraw without undoing the zeroing.
DispatchRejectKeepsZero ==
    /\ callStack # <<>>
    /\ LET frame == callStack[Depth] IN
        /\ callStack' = SubSeq(callStack, 1, Depth - 1)
        /\ status' = NOT_ENTERED
        /\ balance' = balance + frame.amount
        /\ sent' = IF Depth = 1 THEN NoSent ELSE frame.savedSent
        /\ last' = [Called("withdraw", frame.sender, 0, frame.amount, 0, 0,
                           "TransferFailed") EXCEPT !.depth = Depth - 1]
    /\ UNCHANGED <<listings, auctions, pendingWithdrawals, bidCommitments, paused,
                   nftOwner, nftApproved, nftPaused, now>>

\* The recipient refuses the funds (its code reverts): sent is false, withdraw
\* reverts with TransferFailed and everything done since its start is undone.
DispatchReject ==
    /\ callStack # <<>>
    /\ LET frame == callStack[Depth] IN
        /\ Store(frame.saved)
        /\ callStack' = SubSeq(callStack, 1, Depth - 1)
        /\ sent' = IF Depth = 1 THEN NoSent ELSE frame.savedSent
        /\ last' = [Called("withdraw", frame.sender, 0, frame.amount, 0, 0,
                           "TransferFailed") EXCEPT !.depth = Depth - 1]
    /\ UNCHANGED now

\* ------------------------------------------------------------- environment
\* Time passes between transactions.
Tick(d) ==
    /\ callStack = <<>>
    /\ now + d <= 1 + MaxTicks * AUCTION_EXTENSION_DURATION
    /\ now' = now + d
    /\ last' = Called("tick", NoAddr, 0, 0, d, 0, "ok")
    /\ UNCHANGED <<engineVars, callStack, sent>>

\* The owner of a token approves the trading contract for it (or revokes).
NftApprove(sender, tokenId, spender) ==
    /\ callStack = <<>>
    /\ nftOwner[tokenId] = sender
    /\ nftApproved' = [nftApproved EXCEPT ![tokenId] = spender]
    /\ last' = Called("approve", sender, tokenId, 0, spender, 0, "ok")
    /\ UNCHANGED <<listings, auctions, pendingWithdrawals, bidCommitments, status,
                   paused, balance, nftOwner, nftPaused, now, callStack, sent>>

\* The deployer pauses or unpauses the registry: while paused every transfer reverts.
NftSetPaused(flag) ==
    /\ callStack = <<>>
    /\ nftPaused # flag
    /\ nftPaused' = flag
    /\ last' = Called("nftPause", owner, 0, 0, flag, 0, "ok")
    /\ UNCHANGED <<listings, auctions, pendingWithdrawals, bidCommitments, status,
                   paused, balance, nftOwner, nftApproved, now, callStack, sent>>

\* ---------------------------------------------------------- specifications
Traders == {"alice", "bob"}
Traded == {1}
Durations ==
    {MIN_AUCTION_DURATION - 1, MIN_AUCTION_DURATION, AUCTION_EXTENSION_DURATION + 1,
     MAX_AUCTION_DURATION, MAX_AUCTION_DURATION + 1}

\* What the parties can pay is finite: the engine never holds more than the cap.
Affordable(v, cap) == balance + v <= cap

\* The whole engine, every operation, over one asset and the smallest inputs.
Next ==
    \/ \E p \in Traders, t \in Traded, price \in {0, 1} : ListCard(p, t, price)
    \/ \E p \in Traders, t \in Traded : UnlistCard(p, t)
    \/ \E p \in Traders, t \in Traded, v \in 0 .. MaxBalance :
          Affordable(v, MaxBalance) /\ BuyCard(p, t, v)
    \/ \E p \in Traders, t \in Traded, sp \in {0, 1},
          d \in {MIN_AUCTION_DURATION - 1, MIN_AUCTION_DURATION, MAX_AUCTION_DURATION + 1} :
          StartAuction(p, t, sp, d)
    \/ \E p \in Traders, t \in Traded, v \in 0 .. MaxBalance :
          Affordable(v, MaxBalance) /\ PlaceBid(p, t, v)
    \/ \E t \in Traded : CommitBid("bob", t, keccak256("bob", t, 1, "n1"))
    \/ \E p \in Traders, t \in Traded, v \in 0 .. MaxBalance :
          Affordable(v, MaxBalance) /\ PlaceBidReveal(p, t, 1, "n1", v)
    \/ \E p \in Parties, t \in Traded : SettleAuction(p, t)
    \/ \E p \in Parties : Withdraw(p)
    \/ \E p \in Parties : Pause(p)
    \/ \E p \in Parties : Unpause(p)
    \/ DispatchAccept
    \/ DispatchReject
    \/ Tick(AUCTION_EXTENSION_DURATION)
    \/ \E p \in Traders, t \in Traded : NftApprove(p, t, Engine)

\* Fixed-price sales and the ledger: three parties, one asset, prices and
\* payments that differ, approvals granted and revoked, the registry paused.
NextSale ==
    \/ \E p \in Parties, t \in Traded, price \in {0, 1, 2} : ListCard(p, t, price)
    \/ \E p \in Parties, t \in Traded : UnlistCard(p, t)
    \/ \E p \in Parties, t \in Traded, v \in 0 .. MaxBalance + 1 :
          Affordable(v, MaxBalance + 1) /\ BuyCard(p, t, v)
    \/ \E p \in Parties : Withdraw(p)
    \/ DispatchAccept
    \/ DispatchReject
    \/ \E p \in Parties : Pause(p)
    \/ \E p \in Parties : Unpause(p)
    \/ \E p \in Parties, t \in Traded, sp \in {Engine, NoAddr} : NftApprove(p, t, sp)
    \/ \E f \in BOOLEAN : NftSetPaused(f)

\* Auctions of one asset with bids large enough for the 5% increment to count.
BidValues == {20, 21, 22}

NextAuction ==
    \/ \E p \in Traders, t \in Traded, sp \in {0, 20}, d \in Durations :
          StartAuction(p, t, sp, d)
    \/ \E p \in Parties, t \in Traded, v \in BidValues \cup {19} :
          Affordable(v, MaxEscrow) /\ PlaceBid(p, t, v)
    \/ \E t \in Traded, a \in {21, 22} : CommitBid("bob", t, keccak256("bob", t, a, "n1"))
    \/ \E p \in {"alice", "bob"}, t \in Traded, a \in {21, 22}, v \in {21, 22} :
          Affordable(v, MaxEscrow) /\ PlaceBidReveal(p, t, a, "n1", v)
    \/ \E p \in Parties, t \in Traded : SettleAuction(p, t)
    \/ \E p \in Parties : Withdraw(p)
    \/ DispatchAccept
    \/ DispatchReject
    \/ Tick(AUCTION_EXTENSION_DURATION)
    \/ \E p \in Traders, t \in Traded : NftApprove(p, t, Engine)

\* Two assets traded side by side: alice auctions asset 1 and bob bids on
\* it, bob sells or auctions asset 2 and alice buys or bids on it; bids are
\* placed directly and by commit and reveal.
Holder(t) == IF t = 1 THEN "alice" ELSE "bob"
Taker(t) == IF t = 1 THEN "bob" ELSE "alice"

NextMarket ==
    \/ ListCard(Holder(2), 2, 1)
    \/ UnlistCard(Holder(2), 2)
    \/ Affordable(1, MaxEscrow) /\ BuyCard(Taker(2), 2, 1)
    \/ \E t \in Assets : StartAuction(Holder(t), t, 20, MIN_AUCTION_DURATION)
    \/ \E t \in Assets, v \in {20, 21} :
          Affordable(v, MaxEscrow) /\ PlaceBid(Taker(t), t, v)
    \/ \E t \in Assets : CommitBid(Taker(t), t, keccak256(Taker(t), t, 21, "n1"))
    \/ \E t \in Assets :
          Affordable(21, MaxEscrow) /\ PlaceBidReveal(Taker(t), t, 21, "n1", 21)
    \/ \E p \in Traders, t \in Assets : SettleAuction(p, t)
    \/ \E p \in Traders : Withdraw(p)
    \/ DispatchAccept
    \/ DispatchReject
    \/ Tick(AUCTION_EXTENSION_DURATION)
    \/ \E p \in Traders, t \in Assets : NftApprove(p, t, Engine)

\* Competing bidders on one auction, with bids below and above the size at
\* which 5% of the highest bid is a whole unit.
NextBids ==
    \/ \E t \in Traded : StartAuction("alice", t, 19, MIN_AUCTION_DURATION)
    \/ \E p \in {"bob", "admin"}, t \in Traded, v \in {19, 20, 21} :
          Affordable(v, MaxEscrow) /\ PlaceBid(p, t, v)
    \/ \E t \in Traded : CommitBid("bob", t, keccak256("bob", t, 21, "n1"))
    \/ \E t \in Traded : Affordable(21, MaxEscrow) /\ PlaceBidReveal("bob", t, 21, "n1", 21)
    \/ \E p \in Traders, t \in Traded : SettleAuction(p, t)
    \/ \E p \in Parties : Withdraw(p)
    \/ DispatchAccept
    \/ DispatchReject
    \/ Tick(AUCTION_EXTENSION_DURATION)
    \/ \E t \in Traded : NftApprove("alice", t, Engine)

\* One auction from its start to its settlement, with both contracts paused
\* and unpaused on the way.  The auction starts at the first instant, so
\* that its end, extended or not, lies within the time the clock covers.
SettleAny == \E p \in Parties, t \in Traded : SettleAuction(p, t)
Resolve == DispatchAccept \/ DispatchReject

NextSettle ==
    \/ \E t \in Traded : now = 1 /\ StartAuction("alice", t, 20, MIN_AUCTION_DURATION)
    \/ \E p \in {"bob", "admin"}, t \in Traded, v \in {20, 21} :
          Affordable(v, MaxEscrow) /\ PlaceBid(p, t, v)
    \/ SettleAny
    \/ \E p \in Parties : Withdraw(p)
    \/ Resolve
    \/ Tick(AUCTION_EXTENSION_DURATION)
    \/ \E t \in Traded : NftApprove("alice", t, Engine)
    \/ Pause(owner)
    \/ Unpause(owner)
    \/ \E f \in BOOLEAN : NftSetPaused(f)


Spec == Init /\ [][Next]_vars
SpecSale == Init /\ [][NextSale]_vars
SpecAuction == Init /\ [][NextAuction]_vars

SpecMarket == Init /\ [][NextMarket]_vars

SpecBids == Init /\ [][NextBids]_vars

\* Time passes whatever the parties do, a transaction that dispatches funds
\* comes to its end, and as long as settleAuction keeps being possible some
\* party calls it.
SpecSettle ==
    /\ Init /\ [][NextSettle]_vars
    /\ SF_vars(Tick(AUCTION_EXTENSION_DURATION))
    /\ WF_vars(Resolve)
    /\ SF_vars(SettleAny)



\* ------------------------------------------------------------------ claims
Live(t) == auctions[t].endTime # 0 /\ ~auctions[t].settled

GatedOps == {"listCard", "unlistCard", "buyCard", "startAuction", "placeBid",
             "commitBid", "placeBidReveal", "settleAuction"}

AnyCommitments ==
    {ZeroHash} \cup {keccak256(p, t, a, n) : p \in Parties, t \in Traded, a \in {1, 21}, n \in {"n1"}}

\* The outcomes of every call of the eight operations that carry whenNotPaused,
\* over the inputs of the specifications, in the current state.
GatedOutcomes ==
    {listCard(St, p, t, price) : p \in Parties, t \in Traded, price \in 0 .. 1}
    \cup {unlistCard(St, p, t) : p \in Parties, t \in Traded}
    \cup {buyCard(St, p, t, v) : p \in Parties, t \in Traded, v \in 0 .. 1}
    \cup {startAuction(St, p, t, sp, d, now) :
              p \in Parties, t \in Traded, sp \in 0 .. 1,
              d \in {MIN_AUCTION_DURATION - 1, MIN_AUCTION_DURATION}}
    \cup {placeBid(St, p, t, v, now) : p \in Parties, t \in Traded, v \in 0 .. 1}
    \cup {commitBid(St, p, t, c, now) : p \in Parties, t \in Traded, c \in AnyCommitments}
    \cup {placeBidReveal(St, p, t, 1, "n1", v, now) :
              p \in Parties, t \in Traded, v \in 0 .. 1}
    \cup {settleAuction(St, p, t, now) : p \in Parties, t \in Traded}

WithdrawOutcomes == {withdraw(St, p) : p \in Parties}

\* C1: for every asset, an active listing and an unsettled auction never
\* coexist, and while a listing is active (its price is then positive) or an
\* auction is unsettled, the trading contract is the owner of the asset.
C1_EscrowHeld ==
    \A t \in Assets :
        /\ ~(listings[t].active /\ Live(t))
        /\ listings[t].active => (ownerOf(St, t) = Engine /\ listings[t].price > 0)
        /\ Live(t) => ownerOf(St, t) = Engine

\* An auction that has ended and awaits settlement, on an asset that was listed
\* and unlisted or sold before.
C1_Witness ==
    \E t \in Assets :
        /\ Live(t) /\ now >= auctions[t].endTime
        /\ listings[t].seller # NoAddr /\ ~listings[t].active
        /\ ownerOf(St, t) = Engine

\* C2 (as amended): while the trading contract is paused, every call of
\* listCard, unlistCard, buyCard, startAuction, placeBid, commitBid,
\* placeBidReveal and settleAuction fails with EnforcedPause and changes
\* nothing; withdraw carries no whenNotPaused and is not stopped.
C2_PausedOpsFail ==
    paused => \A r \in GatedOutcomes : r.err = "EnforcedPause" /\ r.st = St

\* Paused, with an open auction, an approved owner and funds owed: each of the
\* gated calls would otherwise have something to do.
C2_Witness ==
    /\ paused
    /\ \E t \in Assets : Live(t) /\ auctions[t].highestBidder # NoAddr
    /\ \E p \in Parties : pendingWithdrawals[p] > 0

\* C2 as stated: while paused no call of the nine operations, withdraw
\* included, goes through.
C2_Original ==
    [][paused => last'.op \notin (GatedOps \cup {"withdraw"})]_vars

\* C3: while a withdraw is dispatching funds and the recipient's code
\* calls withdraw again, to any depth, the ether dispatched to any party in
\* the transaction never exceeds the balance it was owed when the outermost
\* call began.
C3_NoOverpayment ==
    callStack # <<>> =>
        \A p \in Parties : sent[p] <= callStack[1].saved.pendingWithdrawals[p]

\* A dispatch in progress to a party that was owed funds, has been sent all of
\* them, and whose nested withdraw is turned away.
C3_Witness ==
    /\ callStack # <<>>
    /\ LET p == callStack[1].sender IN
        /\ sent[p] = callStack[1].saved.pendingWithdrawals[p]
        /\ sent[p] > 0
        /\ pendingWithdrawals[p] = 0
        /\ withdraw(St, p).err # "ok"
    /\ \E q \in Parties : pendingWithdrawals[q] > 0

\* C4 (as amended): while a withdraw is in progress every nested call of the
\* nine operations fails and changes nothing: with the reentrancy error, or,
\* when the contract is paused, with EnforcedPause for the eight operations
\* whose whenNotPaused modifier runs first.
C4_NestedCallsFail ==
    callStack # <<>> =>
        /\ \A r \in WithdrawOutcomes :
               r.err = "ReentrancyGuardReentrantCall" /\ r.st = St
        /\ \A r \in GatedOutcomes :
               /\ r.err = (IF paused THEN "EnforcedPause"
                           ELSE "ReentrancyGuardReentrantCall")
               /\ r.st = St

\* A dispatch in progress, the contract not paused, with an asset a nested
\* call could otherwise buy.
C4_Witness ==
    /\ callStack # <<>>
    /\ ~paused
    /\ \E t \in Assets : listings[t].active

\* C4 as stated: every nested call fails with the reentrancy error.
C4_Original ==
    callStack # <<>> =>
        \A r \in WithdrawOutcomes \cup GatedOutcomes :
            r.err = "ReentrancyGuardReentrantCall"

\* A bid can get as far as the minimum-bid check: the modifiers pass and the
\* auction of t exists, has not ended and is not settled.
Biddable(t) ==
    /\ ~paused /\ status = NOT_ENTERED
    /\ auctions[t].endTime # 0 /\ now < auctions[t].endTime /\ ~auctions[t].settled

BidSteps == {"placeBid", "placeBidReveal"}

\* The outcome of a bid of amount a by p on t, placed directly and placed by
\* revealing a matching commitment with payment a.
DirectBid(p, t, a) == placeBid(St, p, t, a, now)
RevealedBid(p, t, a) ==
    placeBidReveal([St EXCEPT !.bidCommitments[t][p] = keccak256(p, t, a, "n1")],
                   p, t, a, "n1", a, now)

\* C5 (as amended): with a highest bid B the minimum admissible next bid,
\* direct or revealed, is B + floor(B * 5 / 100): a bid of at least the starting
\* price and below that minimum is rejected with BidBelowMinimumIncrement, a
\* bid of exactly the minimum is accepted (exactly B * 1.05 when 5% of B is
\* whole); with no bidder yet the minimum is the starting price.
C5_MinimumBid ==
    \A t \in Traded :
        Biddable(t) =>
            LET B == auctions[t].highestBid
                least == IF auctions[t].highestBidder = NoAddr
                         THEN auctions[t].startingPrice
                         ELSE B + ((B * 5) \div 100)
            IN
            \A p \in Parties, a \in (BidValues \cup {19, least}) :
                /\ a >= least => DirectBid(p, t, a).err = "ok"
                /\ a >= least => RevealedBid(p, t, a).err = "ok"
                /\ (a >= auctions[t].startingPrice /\ a < least) =>
                       /\ DirectBid(p, t, a).err = "BidBelowMinimumIncrement"
                       /\ RevealedBid(p, t, a).err = "BidBelowMinimumIncrement"

\* A bid of 21 has just been accepted over a bid of 20 (exactly 5% more), and
\* the auction is still open for the next one.
C5_Witness ==
    \E t \in Traded :
        /\ last.op \in BidSteps /\ last.tokenId = t
        /\ auctions[t].highestBid = 21
        /\ \E p \in Parties : pendingWithdrawals[p] = 20
        /\ Biddable(t)

\* C5 as stated: over a highest bid B no bid below B * 1.05 is accepted.
C5_Original ==
    [][\A t \in Traded :
          (last'.op \in BidSteps /\ last'.tokenId = t
           /\ auctions[t].highestBidder # NoAddr) =>
              100 * auctions'[t].highestBid >= 105 * auctions[t].highestBid]_vars

Max(a, b) == IF a >= b THEN a ELSE b

\* C6: every accepted bid, direct or revealed, at time now sets endTime to
\* max(old endTime, now + AUCTION_EXTENSION_DURATION): now + window when the
\* remaining time was at most the window, unchanged when it was more; a
\* bid never shortens the auction.
C6_AntiSniping ==
    [][\A t \in Traded :
          (last'.op \in BidSteps /\ last'.tokenId = t) =>
              LET old == auctions[t].endTime
                  new == auctions'[t].endTime
              IN
              /\ new = Max(old, now + AUCTION_EXTENSION_DURATION)
              /\ (old - now <= AUCTION_EXTENSION_DURATION) =>
                     new = now + AUCTION_EXTENSION_DURATION
              /\ (old - now > AUCTION_EXTENSION_DURATION) => new = old
              /\ new >= old]_vars

\* A revealed bid placed one second before the end of an auction that had run
\* a full window: the end has moved to a window from now.
C6_Witness ==
    \E t \in Traded :
        /\ last.op = "placeBidReveal" /\ last.tokenId = t
        /\ now = 1 + AUCTION_EXTENSION_DURATION
        /\ auctions[t].endTime = now + AUCTION_EXTENSION_DURATION
        /\ auctions[t].highestBidder = last.sender

\* C7: a successful buyCard on an active listing with payment >= price
\* deactivates the listing, adds exactly price to the seller's ledger
\* balance and exactly payment - price to the buyer's when that is positive,
\* keeps the whole payment in the contract (no refund is sent), and makes the
\* buyer the owner of the asset.
C7_BuyEffects ==
    [][last'.op = "buyCard" =>
          LET t == last'.tokenId
              buyer == last'.sender
              payment == last'.value
              seller == listings[t].seller
              price == listings[t].price
              withPrice == [pendingWithdrawals EXCEPT ![seller] = @ + price]
          IN
          /\ listings[t].active /\ payment >= price
          /\ ~listings'[t].active
          /\ pendingWithdrawals' = [withPrice EXCEPT ![buyer] = @ + (payment - price)]
          /\ balance' = balance + payment
          /\ nftOwner'[t] = buyer]_vars

\* A card has just been bought by a third party for more than its price.
C7_Witness ==
    /\ last.op = "buyCard"
    /\ last.value > listings[last.tokenId].price
    /\ last.sender # listings[last.tokenId].seller
    /\ nftOwner[last.tokenId] = last.sender
    /\ pendingWithdrawals[last.sender] = last.value - listings[last.tokenId].price

\* C8: when its modifiers pass, buyCard fails with NotListed if the asset
\* has no active listing and with InsufficientPayment if the listing is active
\* and the payment is below the price, leaving everything unchanged; so a
\* listing that was bought cannot be bought again.
C8_BuyRejections ==
    (~paused /\ status = NOT_ENTERED) =>
        \A p \in Parties, t \in Assets, v \in 0 .. MaxBalance + 1 :
            LET r == buyCard(St, p, t, v) IN
            /\ ~listings[t].active => (r.err = "NotListed" /\ r.st = St)
            /\ (listings[t].active /\ v < listings[t].price) =>
                   (r.err = "InsufficientPayment" /\ r.st = St)

\* Right after a successful purchase: the listing is inactive and a second
\* purchase at the same price is turned away.
C8_Witness ==
    /\ last.op = "buyCard"
    /\ ~paused /\ status = NOT_ENTERED
    /\ ~listings[last.tokenId].active
    /\ buyCard(St, "admin", last.tokenId, last.value).err = "NotListed"

\* C9: when its modifiers pass, listCard fails with AlreadyListed if the
\* asset has an active listing (whoever calls, the seller included), otherwise
\* with NotCardOwner if the caller does not own the asset, otherwise with
\* PriceMustBePositive if the price is 0; each failure leaves everything
\* unchanged.
C9_ListRejections ==
    (~paused /\ status = NOT_ENTERED) =>
        \A p \in Parties, t \in Assets, price \in 0 .. 2 :
            LET r == listCard(St, p, t, price) IN
            /\ listings[t].active => (r.err = "AlreadyListed" /\ r.st = St)
            /\ (~listings[t].active /\ ownerOf(St, t) # p) =>
                   (r.err = "NotCardOwner" /\ r.st = St)
            /\ (~listings[t].active /\ ownerOf(St, t) = p /\ price = 0) =>
                   (r.err = "PriceMustBePositive" /\ r.st = St)

\* An asset has just been listed and its seller's attempt to list it again, at
\* another price, is turned away with AlreadyListed.
C9_Witness ==
    /\ last.op = "listCard"
    /\ ~paused /\ status = NOT_ENTERED
    /\ listings[last.tokenId].active
    /\ listCard(St, listings[last.tokenId].seller, last.tokenId, 2).err = "AlreadyListed"
    /\ \E p \in Parties : pendingWithdrawals[p] > 0

\* C10: a successful listCard by the owner with price > 0 moves the asset
\* from the seller to the trading contract and records the listing with
\* seller = caller, the given price and active = true.
C10_ListEffects ==
    [][last'.op = "listCard" =>
          LET t == last'.tokenId
              seller == last'.sender
              price == last'.arg
          IN
          /\ nftOwner[t] = seller /\ price > 0
          /\ nftOwner'[t] = Engine
          /\ listings' = [listings EXCEPT
                             ![t] = [seller |-> seller, price |-> price, active |-> TRUE]]
          /\ pendingWithdrawals' = pendingWithdrawals]_vars

\* A buyer has listed again, at a price of 2, the card it bought.
C10_Witness ==
    /\ last.op = "listCard"
    /\ nftOwner[last.tokenId] = Engine
    /\ listings[last.tokenId] = [seller |-> last.sender, price |-> 2, active |-> TRUE]
    /\ \E p \in Parties : p # last.sender /\ pendingWithdrawals[p] > 0

\* The modifiers of a gated operation let a call through.
Callable == ~paused /\ status = NOT_ENTERED

\* C11: when its modifiers pass, unlistCard fails with NotListed if the
\* listing is inactive, whoever calls, and with NotSeller if the listing is
\* active and the caller is not its seller, changing nothing; it succeeds only
\* for the seller of an active listing, and then deactivates the listing,
\* returns the asset to the seller and leaves the ledger alone.
C11_Unlist ==
    Callable =>
        \A p \in Parties, t \in Assets :
            LET r == unlistCard(St, p, t) IN
            /\ ~listings[t].active => (r.err = "NotListed" /\ r.st = St)
            /\ (listings[t].active /\ listings[t].seller # p) =>
                   (r.err = "NotSeller" /\ r.st = St)
            /\ (listings[t].active /\ listings[t].seller = p /\ ~nftPaused) =>
                   r.err = "ok"
            /\ r.err = "ok" =>
                   /\ listings[t].active /\ listings[t].seller = p
                   /\ r.st.listings = [listings EXCEPT ![t].active = FALSE]
                   /\ ownerOf(r.st, t) = p
                   /\ r.st.pendingWithdrawals = pendingWithdrawals
                   /\ r.st.balance = balance

\* A card that bob bought from alice and listed again: alice and admin are
\* turned away with NotSeller, bob can take it back.
C11_Witness ==
    \E t \in Traded :
        /\ Callable /\ listings[t].active /\ listings[t].seller = "bob"
        /\ pendingWithdrawals["alice"] > 0
        /\ unlistCard(St, "alice", t).err = "NotSeller"
        /\ unlistCard(St, "admin", t).err = "NotSeller"
        /\ ownerOf(unlistCard(St, "bob", t).st, t) = "bob"

\* C12: whenever a party's listCard succeeds, the same party's unlistCard
\* right after it succeeds too, makes that party the owner of the asset again
\* and leaves every ledger balance and the contract's funds as they were
\* before the listing.
C12_ListUnlistRoundTrip ==
    \A p \in Parties, t \in Assets, price \in 1 .. 2 :
        LET listed == listCard(St, p, t, price)
            unlisted == unlistCard(listed.st, p, t)
        IN
        listed.err = "ok" =>
            /\ ownerOf(St, t) = p /\ ownerOf(listed.st, t) = Engine
            /\ unlisted.err = "ok"
            /\ ownerOf(unlisted.st, t) = p
            /\ unlisted.st.pendingWithdrawals = pendingWithdrawals
            /\ unlisted.st.balance = balance
            /\ ~unlisted.st.listings[t].active

\* A seller has just unlisted its card and owns it again, while the ledger
\* holds funds from an earlier sale.
C12_Witness ==
    \E t \in Traded :
        /\ last.op = "unlistCard" /\ last.tokenId = t
        /\ listings[t].seller = last.sender /\ ~listings[t].active
        /\ nftOwner[t] = last.sender
        /\ \E q \in Parties : pendingWithdrawals[q] > 0

\* C13: when its modifiers pass, startAuction fails with NotCardOwner if
\* the caller does not own the asset, otherwise with InvalidStartingPrice if
\* startingPrice is 0, otherwise with DurationTooShort if duration < 1 minute,
\* otherwise with DurationTooLong if duration > 30 days, changing nothing; an
\* approved owner's call with a positive price and a duration of exactly 1
\* minute or exactly 30 days is accepted.
C13_StartAuctionRejections ==
    Callable =>
        \A p \in Parties, t \in Assets, sp \in {0, 20}, d \in Durations :
            LET r == startAuction(St, p, t, sp, d, now)
                mine == ownerOf(St, t) = p
            IN
            /\ ~mine => (r.err = "NotCardOwner" /\ r.st = St)
            /\ (mine /\ sp = 0) => (r.err = "InvalidStartingPrice" /\ r.st = St)
            /\ (mine /\ sp > 0 /\ d < MIN_AUCTION_DURATION) =>
                   (r.err = "DurationTooShort" /\ r.st = St)
            /\ (mine /\ sp > 0 /\ d > MAX_AUCTION_DURATION) =>
                   (r.err = "DurationTooLong" /\ r.st = St)
            /\ (mine /\ sp > 0 /\ d \in {MIN_AUCTION_DURATION, MAX_AUCTION_DURATION}
                /\ transferAllowed(St, Engine, p, t)) =>
                   (r.err = "ok" /\ r.st.auctions[t].endTime = now + d)

\* The winner of a first auction has started a second one of exactly 30 days.
C13_Witness ==
    \E t \in Traded :
        /\ last.op = "startAuction" /\ last.tokenId = t
        /\ last.sender = "bob" /\ last.arg2 = MAX_AUCTION_DURATION
        /\ auctions[t].endTime = now + MAX_AUCTION_DURATION
        /\ pendingWithdrawals["alice"] > 0

\* C14: when its modifiers pass, startAuction on an asset whose auction
\* exists and is not settled fails with AuctionAlreadyExists, whoever calls
\* and with otherwise valid arguments.
C14_Original ==
    Callable =>
        \A p \in Parties, t \in Traded :
            Live(t) =>
                startAuction(St, p, t, 20, MIN_AUCTION_DURATION, now).err
                    = "AuctionAlreadyExists"

\* An auction that has ended with a bid and awaits settlement: its seller's
\* attempt to start another one is turned away as coming from a non-owner.
C14_Witness ==
    \E t \in Traded :
        /\ Callable /\ Live(t) /\ now >= auctions[t].endTime
        /\ auctions[t].highestBidder # NoAddr
        /\ startAuction(St, auctions[t].seller, t, 20, MIN_AUCTION_DURATION, now).err
               = "NotCardOwner"

\* C15: a successful startAuction at time now takes the asset from the
\* caller, who owned it, into the contract's custody and sets the auction to
\* seller = caller, the given startingPrice, highestBid = 0, no
\* highestBidder, settled = false and endTime = now + duration; the ledger
\* is not touched.
C15_StartAuctionEffects ==
    [][last'.op = "startAuction" =>
          LET t == last'.tokenId IN
          /\ nftOwner[t] = last'.sender
          /\ nftOwner'[t] = Engine
          /\ auctions' = [auctions EXCEPT
                             ![t] = [seller |-> last'.sender,
                                     startingPrice |-> last'.arg,
                                     highestBid |-> 0,
                                     highestBidder |-> NoAddr,
                                     endTime |-> now + last'.arg2,
                                     settled |-> FALSE]]
          /\ pendingWithdrawals' = pendingWithdrawals
          /\ balance' = balance]_vars

\* A second auction of the asset, started by the winner of the first after
\* time has passed: the bid of the first auction is gone from the record.
C15_Witness ==
    \E t \in Traded :
        /\ last.op = "startAuction" /\ last.tokenId = t
        /\ now > 1 /\ auctions[t].endTime = now + last.arg2
        /\ auctions[t].seller = "bob" /\ auctions[t].highestBidder = NoAddr
        /\ auctions[t].highestBid = 0 /\ ~auctions[t].settled
        /\ pendingWithdrawals["alice"] >= 20

\* C16: when its modifiers pass, placeBid on an auction that has been
\* settled fails with AuctionAlreadySettled, whoever bids and whatever the
\* amount.
C16_Original ==
    Callable =>
        \A p \in Parties, t \in Traded, v \in BidValues :
            auctions[t].settled =>
                placeBid(St, p, t, v, now).err = "AuctionAlreadySettled"

\* A settled auction that was won with a bid: a further bid that would
\* clear the minimum is turned away as coming after the end.
C16_Witness ==
    \E t \in Traded :
        /\ Callable /\ auctions[t].settled /\ auctions[t].highestBid = 20
        /\ nftOwner[t] = auctions[t].highestBidder
        /\ placeBid(St, "admin", t, 22, now).err = "AuctionEnded"

\* C17: when its modifiers pass, placeBid fails with NotListed if no
\* auction was ever started for the asset, otherwise with AuctionEnded if
\* now >= endTime (now = endTime included), otherwise, on an open auction,
\* with BidBelowStartingPrice if the amount is below startingPrice and with
\* BidBelowMinimumIncrement if it is at least startingPrice and below the
\* computed minimum; each failure leaves the auction, the ledger, endTime
\* and everything else unchanged.
C17_PlaceBidRejections ==
    Callable =>
        \A p \in Parties, t \in Assets, v \in BidValues \cup {19} :
            LET r == placeBid(St, p, t, v, now)
                auction == auctions[t]
                open == auction.endTime # 0 /\ now < auction.endTime /\ ~auction.settled
            IN
            /\ auction.endTime = 0 => r.err = "NotListed"
            /\ (auction.endTime # 0 /\ now >= auction.endTime) => r.err = "AuctionEnded"
            /\ (open /\ v < auction.startingPrice) => r.err = "BidBelowStartingPrice"
            /\ (open /\ v >= auction.startingPrice /\ v < minBid(auction)) =>
                   r.err = "BidBelowMinimumIncrement"
            /\ r.err # "ok" => r.st = St

\* The clock stands exactly at the end of an unsettled auction that was
\* extended by its one bid; a bid now is turned away, and so is a bid on the
\* asset that was never auctioned.
C17_Witness ==
    \E t \in Traded, u \in Assets :
        /\ Callable /\ now = auctions[t].endTime /\ ~auctions[t].settled
        /\ auctions[t].highestBidder # NoAddr
        /\ placeBid(St, "admin", t, 22, now).err = "AuctionEnded"
        /\ auctions[u].endTime = 0
        /\ placeBid(St, "admin", u, 22, now).err = "NotListed"

\* C18: a successful placeBid of amount a by bidder b adds exactly the
\* previous highest bid to the previous highest bidder's ledger balance when
\* there was one, changes no other ledger balance, sends nothing (the whole
\* payment stays in the contract), and sets highestBid = a and
\* highestBidder = b.
C18_PlaceBidEffects ==
    [][last'.op = "placeBid" =>
          LET t == last'.tokenId
              previous == auctions[t].highestBidder
          IN
          /\ pendingWithdrawals' =
                 IF previous # NoAddr
                 THEN [pendingWithdrawals EXCEPT ![previous] = @ + auctions[t].highestBid]
                 ELSE pendingWithdrawals
          /\ auctions'[t].highestBid = last'.value
          /\ auctions'[t].highestBidder = last'.sender
          /\ auctions'[t].seller = auctions[t].seller
          /\ auctions'[t].startingPrice = auctions[t].startingPrice
          /\ balance' = balance + last'.value
          /\ sent' = sent]_vars

\* admin has just outbid bob's 21 with 22: bob's ledger holds his 21, nobody
\* else's holds anything.
C18_Witness ==
    \E t \in Traded :
        /\ last.op = "placeBid" /\ last.tokenId = t
        /\ last.sender = "admin" /\ last.value = 22
        /\ auctions[t].highestBidder = "admin" /\ auctions[t].highestBid = 22
        /\ pendingWithdrawals = [p \in Parties |-> IF p = "bob" THEN 21 ELSE 0]
        /\ balance = 43

\* Commitments a party may submit: digests of amounts below the starting
\* price, of admissible amounts, of another nonce, and the zero word.
SomeCommitments ==
    {keccak256(p, t, 22, "n1") : p \in Parties, t \in Traded}
        \cup {keccak256("bob", t, 1, "n2") : t \in Traded} \cup {ZeroHash}

\* C19: when its modifiers pass, commitBid fails with NotListed if no
\* auction exists for the asset and with AuctionEnded if now >= endTime,
\* changing nothing; on an auction that exists, has not ended and is not
\* settled it stores the given commitment for (asset, caller), whatever
\* amount it hides and whatever was stored before, and changes nothing else
\* (one commitment per (asset, bidder), the latest).
C19_CommitBid ==
    Callable =>
        \A p \in Parties, t \in Assets, c \in SomeCommitments :
            LET r == commitBid(St, p, t, c, now)
                auction == auctions[t]
            IN
            /\ auction.endTime = 0 => (r.err = "NotListed" /\ r.st = St)
            /\ (auction.endTime # 0 /\ now >= auction.endTime) =>
                   (r.err = "AuctionEnded" /\ r.st = St)
            /\ (auction.endTime # 0 /\ now < auction.endTime /\ ~auction.settled) =>
                   /\ r.err = "ok"
                   /\ r.st = [St EXCEPT !.bidCommitments[t][p] = c]

\* bob has committed to 21 on an open auction; committing to 22 would
\* replace that commitment.
C19_Witness ==
    \E t \in Traded :
        /\ Callable /\ last.op = "commitBid" /\ last.sender = "bob"
        /\ auctions[t].endTime # 0 /\ now < auctions[t].endTime
        /\ bidCommitments[t]["bob"] = keccak256("bob", t, 21, "n1")
        /\ commitBid(St, "bob", t, keccak256("bob", t, 22, "n1"), now)
               .st.bidCommitments[t]["bob"] = keccak256("bob", t, 22, "n1")

\* The engine's state with c stored as the commitment of (t, p).
Committed(p, t, c) == [St EXCEPT !.bidCommitments[t][p] = c]

\* C20: when its modifiers pass, a placeBidReveal whose (caller, asset,
\* amount, nonce) does not hash to the commitment stored for (asset, caller)
\* fails with InvalidCommitment and changes nothing: the auction, the ledger
\* and the stored commitment stay as they were. This holds for the commitment
\* the caller has stored now and for any other it could have stored, a copy
\* of another bidder's commitment included.
C20_InvalidCommitment ==
    Callable =>
        \A p \in Parties, t \in Traded, a \in {21, 22}, n \in {"n1", "n2"},
           v \in {22} :
          \A c \in SomeCommitments \cup {bidCommitments[t][p]} :
            LET s == Committed(p, t, c)
                r == placeBidReveal(s, p, t, a, n, v, now)
            IN
            c # keccak256(p, t, a, n) =>
                /\ r.err = "InvalidCommitment"
                /\ r.st = s
                /\ r.st.bidCommitments[t][p] = c
                /\ r.st.auctions = auctions
                /\ r.st.pendingWithdrawals = pendingWithdrawals

\* bob has committed to 22 with nonce n1 on an open auction that has a bid
\* of 20: bob's own reveal of another amount or nonce, and alice's reveal
\* after copying bob's commitment, are turned away; bob's matching reveal
\* is not.
C20_Witness ==
    \E t \in Traded :
        LET H == keccak256("bob", t, 22, "n1") IN
        /\ Callable /\ now < auctions[t].endTime /\ auctions[t].highestBid = 20
        /\ bidCommitments[t]["bob"] = H
        /\ placeBidReveal(St, "bob", t, 21, "n1", 22, now).err = "InvalidCommitment"
        /\ placeBidReveal(St, "bob", t, 22, "n2", 22, now).err = "InvalidCommitment"
        /\ placeBidReveal(Committed("alice", t, H), "alice", t, 22, "n1", 22, now).err
               = "InvalidCommitment"
        /\ placeBidReveal(St, "bob", t, 22, "n1", 22, now).err = "ok"

\* C21: a commitment is single-use: a successful placeBidReveal found the
\* matching commitment stored and leaves the commitment of (asset, bidder)
\* cleared, and the same reveal (same amount, nonce and payment) made again
\* right after it, with no new commitBid, fails with InvalidCommitment.
C21_SingleUseCommitment ==
    [][last'.op = "placeBidReveal" =>
          LET t == last'.tokenId
              bidder == last'.sender
          IN
          /\ bidCommitments[t][bidder] = keccak256(bidder, t, last'.arg, last'.arg2)
          /\ bidCommitments'[t][bidder] = ZeroHash
          /\ placeBidReveal(St', bidder, t, last'.arg, last'.arg2, last'.value, now').err
                 = "InvalidCommitment"]_vars

\* bob has just revealed a bid of 21 on an auction that is still open: his
\* commitment is gone and the same reveal again is turned away.
C21_Witness ==
    \E t \in Traded :
        /\ last.op = "placeBidReveal" /\ last.tokenId = t /\ last.sender = "bob"
        /\ auctions[t].highestBid = 21 /\ auctions[t].highestBidder = "bob"
        /\ now < auctions[t].endTime
        /\ bidCommitments[t]["bob"] = ZeroHash
        /\ placeBidReveal(St, "bob", t, 21, "n1", 21, now).err = "InvalidCommitment"

\* C22: from the same state, a placeBidReveal of amount a with a matching
\* commitment and payment v >= a is rejected exactly when placeBid of amount a
\* is, with the same error, and when accepted leaves the same auction record
\* (highestBid, highestBidder, endTime) and the same refund of the previous
\* bidder as placeBid, plus v - a on the bidder's ledger balance, the whole
\* payment staying in the contract and the commitment cleared; with v < a it
\* fails like placeBid if the auction does not exist, has ended or is
\* settled, and with InsufficientPayment otherwise; a rejected reveal changes
\* nothing.
C22_RevealMatchesPlaceBid ==
    \A p \in Parties, t \in Traded, a \in BidValues \cup {19} :
        LET s == Committed(p, t, keccak256(p, t, a, "n1"))
            direct == placeBid(St, p, t, a, now)
        IN
        \A v \in {a - 1, a, a + 1} :
            LET reveal == placeBidReveal(s, p, t, a, "n1", v, now) IN
            /\ v >= a => reveal.err = direct.err
            /\ (v >= a /\ direct.err = "ok") =>
                   /\ reveal.st.auctions = direct.st.auctions
                   /\ reveal.st.pendingWithdrawals =
                          [direct.st.pendingWithdrawals EXCEPT ![p] = @ + (v - a)]
                   /\ reveal.st.balance = balance + v
                   /\ reveal.st.bidCommitments[t][p] = ZeroHash
            /\ v < a =>
                   reveal.err =
                       IF direct.err \in {"ReentrancyGuardReentrantCall", "NotListed",
                                          "AuctionEnded", "AuctionAlreadySettled"}
                       THEN direct.err ELSE "InsufficientPayment"
            /\ reveal.err # "ok" => reveal.st = s

\* bob holds a commitment to 21 on an open auction whose highest bid is
\* alice's 20: his reveal with a payment of 22 and his direct bid of 21 are
\* both accepted, and the reveal leaves him 1 on the ledger.
C22_Witness ==
    \E t \in Traded :
        /\ now < auctions[t].endTime /\ status = NOT_ENTERED
        /\ auctions[t].highestBid = 20 /\ auctions[t].highestBidder = "alice"
        /\ bidCommitments[t]["bob"] = keccak256("bob", t, 21, "n1")
        /\ placeBid(St, "bob", t, 21, now).err = "ok"
        /\ placeBidReveal(St, "bob", t, 21, "n1", 22, now).err = "ok"
        /\ placeBidReveal(St, "bob", t, 21, "n1", 22, now).st.pendingWithdrawals
               = [pendingWithdrawals EXCEPT !["alice"] = @ + 20, !["bob"] = @ + 1]

\* C23: a successful settleAuction, whoever calls it, marks the auction
\* settled and changes nothing else in its record; with a highest bidder it
\* adds exactly the winning bid to the seller's ledger balance and makes the
\* highest bidder the owner of the asset; with none it makes the seller the
\* owner again and changes no ledger balance. No funds leave the contract.
C23_SettleEffects ==
    [][last'.op = "settleAuction" =>
          LET t == last'.tokenId
              auction == auctions[t]
          IN
          /\ ~auction.settled /\ nftOwner[t] = Engine
          /\ auctions' = [auctions EXCEPT ![t].settled = TRUE]
          /\ IF auction.highestBidder # NoAddr
             THEN /\ pendingWithdrawals' =
                         [pendingWithdrawals EXCEPT ![auction.seller] = @ + auction.highestBid]
                  /\ nftOwner'[t] = auction.highestBidder
             ELSE /\ pendingWithdrawals' = pendingWithdrawals
                  /\ nftOwner'[t] = auction.seller
          /\ balance' = balance]_vars

\* admin, neither seller nor bidder, has just settled alice's auction, which
\* bob won with 22: bob owns the asset and alice's ledger holds the 22.
C23_Witness ==
    \E t \in Traded :
        /\ last.op = "settleAuction" /\ last.tokenId = t /\ last.sender = "admin"
        /\ auctions[t].settled /\ auctions[t].seller = "alice"
        /\ auctions[t].highestBidder = "bob" /\ auctions[t].highestBid = 22
        /\ nftOwner[t] = "bob"
        /\ pendingWithdrawals["alice"] = 22

\* C24: when its modifiers pass, settleAuction fails with NotListed if no
\* auction exists for the asset, otherwise with AuctionNotEnded if
\* now < endTime, otherwise with AlreadySettled if the auction is settled,
\* changing nothing; it succeeds only on an auction that is not settled, so
\* a settled auction is never settled again: no second credit to the seller,
\* no second move of the asset.
C24_SettledOnce ==
    Callable =>
        \A p \in Parties, t \in Assets :
            LET r == settleAuction(St, p, t, now)
                auction == auctions[t]
            IN
            /\ auction.endTime = 0 => (r.err = "NotListed" /\ r.st = St)
            /\ (auction.endTime # 0 /\ now < auction.endTime) =>
                   (r.err = "AuctionNotEnded" /\ r.st = St)
            /\ (auction.endTime # 0 /\ now >= auction.endTime /\ auction.settled) =>
                   (r.err = "AlreadySettled" /\ r.st = St)
            /\ r.err = "ok" =>
                   (auction.endTime # 0 /\ now >= auction.endTime /\ ~auction.settled)

\* An auction won with a bid of 20 has just been settled: settling it again,
\* by the seller, the winner or anyone, is turned away with AlreadySettled.
C24_Witness ==
    \E t \in Traded :
        /\ Callable /\ last.op = "settleAuction" /\ auctions[t].settled
        /\ auctions[t].highestBid = 20
        /\ pendingWithdrawals[auctions[t].seller] = 20
        /\ \A p \in Parties : settleAuction(St, p, t, now).err = "AlreadySettled"

\* C25: a withdraw by a party whose ledger balance is 0 fails with
\* NothingToWithdraw (when the re-entrancy guard lets it in) and changes
\* nothing; a withdraw whose dispatch is refused fails with TransferFailed
\* and leaves the caller's ledger balance at its positive value from before
\* the call, the contract's funds and everything else as they were before
\* the call: nothing has been paid.
C25_WithdrawFailures ==
    [][/\ status = NOT_ENTERED =>
              \A p \in Parties :
                  pendingWithdrawals[p] = 0 =>
                      withdraw(St, p) = Fail(St, "NothingToWithdraw")
       /\ (last'.op = "withdraw" /\ last'.err = "TransferFailed"
           /\ Len(callStack') < Len(callStack)) =>
              LET frame == callStack[Depth]
                  before == frame.saved
              IN
              /\ pendingWithdrawals[frame.sender] = 0
              /\ pendingWithdrawals'[frame.sender] = before.pendingWithdrawals[frame.sender]
              /\ pendingWithdrawals'[frame.sender] = frame.amount /\ frame.amount > 0
              /\ balance' = before.balance
              /\ St' = before
              /\ sent'[frame.sender] = frame.savedSent[frame.sender]
                     \/ Depth = 1]_vars

\* alice's withdraw of the 2 she was paid has just failed because she
\* refused the funds: her ledger still holds the 2, the contract still holds
\* them, and admin, who is owed nothing, cannot withdraw.
C25_Witness ==
    /\ last.op = "withdraw" /\ last.err = "TransferFailed" /\ last.sender = "alice"
    /\ callStack = <<>> /\ status = NOT_ENTERED
    /\ pendingWithdrawals["alice"] = 2 /\ last.value = 2 /\ balance >= 2
    /\ sent = NoSent
    /\ pendingWithdrawals["admin"] = 0
    /\ withdraw(St, "admin").err = "NothingToWithdraw"

\* C26: a withdraw that succeeds was made by a party with a ledger balance
\* v > 0; from its start to its end exactly v is dispatched to that party,
\* the party's ledger balance goes to 0, the contract's funds go down by v,
\* and every other ledger balance, every listing, every auction, every
\* commitment and the custody of every asset are as they were before the
\* call.
C26_WithdrawEffects ==
    [][(last'.op = "withdraw" /\ last'.err = "ok"
        /\ Len(callStack') < Len(callStack)) =>
          LET frame == callStack[Depth]
              before == frame.saved
              party == frame.sender
          IN
          /\ frame.amount = before.pendingWithdrawals[party] /\ frame.amount > 0
          /\ sent[party] = frame.savedSent[party] + frame.amount
          /\ pendingWithdrawals' = [before.pendingWithdrawals EXCEPT ![party] = 0]
          /\ balance' = before.balance - frame.amount
          /\ listings' = before.listings
          /\ auctions' = before.auctions
          /\ bidCommitments' = before.bidCommitments
          /\ nftOwner' = before.nftOwner
          /\ status' = NOT_ENTERED]_vars

\* alice has withdrawn the 1 she was paid for her card while bob, who bought
\* it and put it up for auction, is still owed 1: his balance and his
\* auction are untouched.
C26_Witness ==
    \E t \in Traded :
        /\ last.op = "withdraw" /\ last.err = "ok" /\ last.sender = "alice"
        /\ last.value = 1 /\ callStack = <<>>
        /\ pendingWithdrawals["alice"] = 0 /\ pendingWithdrawals["bob"] = 1
        /\ balance = 1
        /\ Live(t) /\ auctions[t].seller = "bob"

\* What each operation of the contract returns in the current state, over
\* callers and arguments that make it fail in each of its ways.
AnyOutcomes ==
    UNION {
        {listCard(St, p, t, 1), unlistCard(St, p, t), buyCard(St, p, t, 1),
         commitBid(St, p, t, ZeroHash, now), settleAuction(St, p, t, now),
         withdraw(St, p), pause(St, p), unpause(St, p)}
        \cup {startAuction(St, p, t, sp, d, now) :
                 sp \in {0, 20}, d \in {MIN_AUCTION_DURATION - 1, MIN_AUCTION_DURATION}}
        \cup {placeBid(St, p, t, v, now) : v \in {19, 20, 22}}
        \cup {placeBidReveal(St, p, t, a, "n1", v, now) : a \in {21, 22}, v \in {20, 22}}
        : p \in Parties, t \in Traded}

\* C27: every operation is all-or-nothing: a call that fails, for whatever
\* reason (a modifier, a precondition, the payment, a refused custody
\* transfer), returns the state it was given, so listings, auctions,
\* commitments, ledger and custody are as before; a placeBidReveal whose
\* commitment matches and whose bid is then rejected leaves that commitment
\* stored; and after a withdraw whose dispatch was refused the caller's
\* ledger balance is what it asked for and nothing has been sent.
C27_AllOrNothing ==
    /\ \A r \in AnyOutcomes : r.err # "ok" => r.st = St
    /\ \A p \in Traders, t \in Traded, a \in {21, 22}, v \in {20, 22} :
           LET r == placeBidReveal(St, p, t, a, "n1", v, now) IN
           (bidCommitments[t][p] = keccak256(p, t, a, "n1") /\ r.err # "ok") =>
               /\ r.err \in {"ReentrancyGuardReentrantCall", "AuctionEnded",
                             "AuctionAlreadySettled", "InsufficientPayment",
                             "BidBelowStartingPrice", "BidBelowMinimumIncrement"}
               /\ r.st.bidCommitments[t][p] = keccak256(p, t, a, "n1")
    /\ (last.op = "withdraw" /\ last.err = "TransferFailed" /\ callStack = <<>>) =>
           /\ pendingWithdrawals[last.sender] = last.value
           /\ sent = NoSent /\ status = NOT_ENTERED

\* bob committed to 21 and was then outbid at 22: his matching reveal of 21
\* is turned away for the increment, and with too small a payment for the
\* payment; the commitment is still his.
C27_Witness ==
    \E t \in Traded :
        /\ Callable /\ now < auctions[t].endTime /\ auctions[t].highestBid = 22
        /\ bidCommitments[t]["bob"] = keccak256("bob", t, 21, "n1")
        /\ placeBidReveal(St, "bob", t, 21, "n1", 22, now).err = "BidBelowMinimumIncrement"
        /\ placeBidReveal(St, "bob", t, 21, "n1", 20, now).err = "InsufficientPayment"
        /\ placeBidReveal(St, "bob", t, 21, "n1", 20, now).st.bidCommitments[t]["bob"]
               = keccak256("bob", t, 21, "n1")

\* C28: pause and unpause called by any party other than the owner fail
\* with OwnableUnauthorizedAccount and change nothing, whatever the state of
\* the switch; the owner's call is the one that toggles it; and no listing,
\* buying, auction, bidding or ledger operation, by any caller, returns a
\* state whose paused flag differs from the current one.
C28_OnlyOwnerPauses ==
    /\ \A p \in Parties \ {owner} :
           /\ pause(St, p) = Fail(St, "OwnableUnauthorizedAccount")
           /\ unpause(St, p) = Fail(St, "OwnableUnauthorizedAccount")
    /\ IF paused
       THEN unpause(St, owner) = Ok([St EXCEPT !.paused = FALSE])
       ELSE pause(St, owner) = Ok([St EXCEPT !.paused = TRUE])
    /\ \A r \in GatedOutcomes \cup WithdrawOutcomes : r.st.paused = paused

\* The owner has just paused the contract while a listing is active: alice
\* and bob can neither pause nor unpause it.
C28_Witness ==
    /\ paused /\ last.op = "pause" /\ last.sender = owner
    /\ \E t \in Traded : listings[t].active
    /\ \A p \in Traders :
           /\ pause(St, p).err = "OwnableUnauthorizedAccount"
           /\ unpause(St, p).err = "OwnableUnauthorizedAccount"
    /\ unpause(St, owner).err = "ok"

\* The state of the auction recorded for an asset at time clock.
AuctionState(auction, clock) ==
    IF auction.endTime = 0 THEN "NONE"
    ELSE IF auction.settled THEN "SETTLED"
    ELSE IF clock < auction.endTime THEN "OPEN"
    ELSE "ENDED"

\* C29 (as amended): for each asset the recorded auction state changes
\* only NONE -> OPEN and SETTLED -> OPEN (by startAuction, which replaces
\* the record), OPEN -> ENDED (by the passing of time alone) and
\* ENDED -> SETTLED (by settleAuction); a successful startAuction always
\* ends in OPEN and a successful settleAuction in SETTLED.
C29_AuctionStates ==
    [][\A t \in Traded :
          LET from == AuctionState(auctions[t], now)
              to == AuctionState(auctions'[t], now')
          IN
          /\ from # to =>
                 \/ from \in {"NONE", "SETTLED"} /\ to = "OPEN"
                        /\ last'.op = "startAuction"
                 \/ from = "OPEN" /\ to = "ENDED" /\ last'.op = "tick"
                 \/ from = "ENDED" /\ to = "SETTLED" /\ last'.op = "settleAuction"
          /\ (last'.op = "startAuction" /\ last'.tokenId = t /\ last' # last) =>
                 to = "OPEN"
          /\ (last'.op = "settleAuction" /\ last'.tokenId = t /\ last' # last) =>
                 (from = "ENDED" /\ to = "SETTLED")]_vars

\* bob, who won alice's auction of the asset, has started his own auction of
\* it after the first was settled: the record that was SETTLED is OPEN again.
C29_Witness ==
    \E t \in Traded :
        /\ last.op = "startAuction" /\ last.tokenId = t /\ last.sender = "bob"
        /\ AuctionState(auctions[t], now) = "OPEN"
        /\ auctions[t].seller = "bob" /\ nftOwner[t] = Engine
        /\ auctions[t].endTime = now + MIN_AUCTION_DURATION
        /\ pendingWithdrawals["alice"] = 22

\* C29 as stated: once the auction of an asset is settled, no step takes
\* the asset's auction to any other state.
C29_Original ==
    [][\A t \in Traded :
          AuctionState(auctions[t], now) = "SETTLED" =>
              AuctionState(auctions'[t], now') = "SETTLED"]_vars

\* The bid fields of an auction record agree: no bidder and a highest bid
\* of 0, or a bidder and a highest bid of at least a positive starting price.
BidFieldsAgree(auction) ==
    /\ (auction.highestBid = 0) <=> (auction.highestBidder = NoAddr)
    /\ auction.highestBidder # NoAddr =>
           (auction.highestBid >= auction.startingPrice /\ auction.startingPrice > 0)

\* C30: in every state and for every auction, highestBid = 0 and no
\* highestBidder hold together, and they hold exactly when no bid has been
\* accepted on that auction: startAuction leaves both empty, only an
\* accepted bid (direct or revealed) on that auction fills them, and only a
\* new startAuction empties them again; once a bid is accepted
\* highestBidder is set and highestBid >= startingPrice > 0.
C30_BidFields ==
    [][\A t \in Assets :
          LET bid == last'.op \in BidSteps /\ last'.tokenId = t /\ last' # last
              start == last'.op = "startAuction" /\ last'.tokenId = t /\ last' # last
          IN
          /\ BidFieldsAgree(auctions[t]) /\ BidFieldsAgree(auctions'[t])
          /\ start => auctions'[t].highestBidder = NoAddr
          /\ bid => auctions'[t].highestBidder = last'.sender
          /\ (auctions[t].highestBidder = NoAddr /\ auctions'[t].highestBidder # NoAddr)
                 => bid
          /\ (auctions[t].highestBidder # NoAddr /\ auctions'[t].highestBidder = NoAddr)
                 => start]_vars

\* The first bid on an auction, of exactly the starting price, has just been
\* accepted: nobody is owed anything yet.
C30_Witness ==
    \E t \in Traded :
        /\ last.op \in BidSteps /\ last.tokenId = t
        /\ auctions[t].highestBidder = last.sender
        /\ auctions[t].highestBid = auctions[t].startingPrice
        /\ auctions[t].startingPrice = 20
        /\ \A p \in Parties : pendingWithdrawals[p] = 0

\* C31: the minimum increment is computed with truncating integer
\* division: with a highest bid B, placeBid and placeBidReveal compute the
\* same minimum B + floor(B * 500 / 10000), which is below the rounded-up
\* B + ceil(B * 5%) whenever 5% of B is not whole; a bid of exactly that
\* minimum is accepted, directly or revealed, and a bid of one less is not.
C31_TruncatedIncrement ==
    \A t \in Traded :
        auctions[t].highestBidder # NoAddr =>
            LET B == auctions[t].highestBid
                floored == B + ((B * MIN_BID_INCREMENT_BPS) \div 10000)
            IN
            /\ minBid(auctions[t]) = floored
            /\ minBidReveal(auctions[t]) = floored
            /\ (B * MIN_BID_INCREMENT_BPS) % 10000 # 0 =>
                   10000 * floored < B * (10000 + MIN_BID_INCREMENT_BPS)
            /\ Biddable(t) =>
                   \A p \in Traders :
                       /\ DirectBid(p, t, floored).err = "ok"
                       /\ RevealedBid(p, t, floored).err = "ok"
                       /\ DirectBid(p, t, floored - 1).err # "ok"
                       /\ RevealedBid(p, t, floored - 1).err # "ok"

\* A bid of 22 has just been accepted over a bid of 21, of which 5% is
\* 1.05: the outbid bidder's 21 is on the ledger.
C31_Witness ==
    \E t \in Traded :
        /\ last.op \in BidSteps /\ last.tokenId = t
        /\ auctions[t].highestBid = 22 /\ auctions[t].highestBidder = last.sender
        /\ \E p \in Parties : pendingWithdrawals[p] = 21

\* No write of the contract's own storage comes after an external call.
MutateThenCall(order) ==
    \A i, j \in 1 .. Len(order) : (i < j /\ order[i] = "call") => order[j] # "store"

\* C32: each of listCard, unlistCard, buyCard, startAuction,
\* settleAuction and withdraw has written all of its own listing, auction
\* and ledger changes before it makes its custody-transfer or fund-dispatch
\* call: in the state left by any of them, the order of effects of the
\* operation that ran has no store after a call.
C32_Original ==
    last.op \in {"listCard", "unlistCard", "buyCard", "startAuction",
                 "settleAuction", "withdraw"} =>
        MutateThenCall(EffectOrder(last.op))

\* A listing has just been recorded, after the asset had already been moved
\* into the contract by the call to the NFT contract.
C32_Witness ==
    \E t \in Traded :
        /\ last.op = "listCard" /\ last.tokenId = t
        /\ listings[t].active /\ nftOwner[t] = Engine
        /\ EffectOrder("listCard")[1] = "call"
        /\ ~MutateThenCall(EffectOrder("startAuction"))
        /\ \A op \in {"unlistCard", "buyCard", "settleAuction", "withdraw"} :
               MutateThenCall(EffectOrder(op))

\* The storage after the step.
StNext ==
    [listings |-> listings', auctions |-> auctions',
     pendingWithdrawals |-> pendingWithdrawals', bidCommitments |-> bidCommitments',
     status |-> status', paused |-> paused', balance |-> balance',
     nftOwner |-> nftOwner', nftApproved |-> nftApproved', nftPaused |-> nftPaused']

\* Whether each operation on asset t, by each trader, would succeed or with
\* which error it would fail, in storage s at time clock.
OutcomesOn(s, t, clock) ==
    [p \in Traders |->
        <<listCard(s, p, t, 1).err, unlistCard(s, p, t).err, buyCard(s, p, t, 1).err,
          startAuction(s, p, t, 20, MIN_AUCTION_DURATION, clock).err,
          placeBid(s, p, t, 21, clock).err,
          commitBid(s, p, t, keccak256(p, t, 21, "n1"), clock).err,
          placeBidReveal(s, p, t, 21, "n1", 21, clock).err,
          settleAuction(s, p, t, clock).err>>]

\* C33: assets are independent: a step that is an operation on one asset (a
\* bid that extends its endTime included, and whether or not its auction has
\* ended unsettled) leaves the listing, the auction (endTime included), the
\* commitments and the custody of every other asset as they were, and every
\* operation on the other asset succeeds or fails after it exactly as before.
C33_Independent ==
    [][\A a \in Assets : \A b \in Assets \ {a} :
          last'.tokenId = a =>
              /\ listings'[b] = listings[b]
              /\ auctions'[b] = auctions[b]
              /\ bidCommitments'[b] = bidCommitments[b]
              /\ nftOwner'[b] = nftOwner[b]
              /\ nftApproved'[b] = nftApproved[b]
              /\ OutcomesOn(StNext, b, now') = OutcomesOn(St, b, now)]_vars

\* A bid on asset 1 has just extended its auction while the auction of asset
\* 2, which holds a commitment of its own, keeps its endTime and stays open.
C33_Witness ==
    /\ last.op = "placeBid" /\ last.tokenId = 1
    /\ auctions[1].endTime = now + AUCTION_EXTENSION_DURATION
    /\ Live(2) /\ auctions[2].highestBidder = NoAddr
    /\ auctions[2].endTime = 1 + MIN_AUCTION_DURATION
    /\ bidCommitments[2]["alice"] # ZeroHash

RECURSIVE SumOver(_, _)
SumOver(f, S) ==
    IF S = {} THEN 0
    ELSE LET x == CHOOSE y \in S : TRUE IN f[x] + SumOver(f, S \ {x})

\* The funds held for the highest bidder of each unsettled auction.
HeldBids ==
    [t \in Assets |->
        IF Live(t) /\ auctions[t].highestBidder # NoAddr THEN auctions[t].highestBid
        ELSE 0]

\* C34: the ether held by the trading contract equals the sum of all ledger
\* balances plus the highestBid of every unsettled auction that has a highest
\* bidder, in every reachable state (while a withdrawal is being dispatched
\* too); so the ledger is always covered in full by the funds held.
C34_FundsConserved ==
    /\ balance = SumOver(pendingWithdrawals, Parties) + SumOver(HeldBids, Assets)
    /\ SumOver(pendingWithdrawals, Parties) <= balance
    /\ \A p \in Parties : withdraw(St, p).err # "TransferFailed"

\* bob, outbid and refunded on the ledger, is being paid while the bid that
\* replaced his is still held for an unsettled auction.
C34_Witness ==
    \E t \in Traded :
        /\ last.op = "withdraw" /\ last.err = "dispatching" /\ last.sender = "bob"
        /\ sent["bob"] > 0
        /\ Live(t) /\ auctions[t].highestBidder = "alice"
        /\ balance = auctions[t].highestBid /\ balance > 0

\* The storage with the modifiers out of the way, to look at the checks in
\* the body of a function.
Unlocked == [St EXCEPT !.status = NOT_ENTERED, !.paused = FALSE]

\* The time check of the three bidding operations passes at time clock.
BidTimeOk(p, t, clock) ==
    /\ placeBid(Unlocked, p, t, 22, clock).err # "AuctionEnded"
    /\ commitBid(Unlocked, p, t, keccak256(p, t, 22, "n1"), clock).err # "AuctionEnded"
    /\ placeBidReveal([Unlocked EXCEPT
                          !.bidCommitments[t][p] = keccak256(p, t, 22, "n1")],
                      p, t, 22, "n1", 22, clock).err # "AuctionEnded"

\* The time check of the three bidding operations fails at time clock.
BidTimeOver(p, t, clock) ==
    /\ placeBid(Unlocked, p, t, 22, clock).err = "AuctionEnded"
    /\ commitBid(Unlocked, p, t, keccak256(p, t, 22, "n1"), clock).err = "AuctionEnded"
    /\ placeBidReveal([Unlocked EXCEPT
                          !.bidCommitments[t][p] = keccak256(p, t, 22, "n1")],
                      p, t, 22, "n1", 22, clock).err = "AuctionEnded"

SettleTimeOk(p, t, clock) == settleAuction(Unlocked, p, t, clock).err # "AuctionNotEnded"

\* C35: for an existing unsettled auction the bidding window and the
\* settlement window are disjoint and cover all time: at the current time,
\* and one second before, at and one second after endTime, either the time
\* check of placeBid, commitBid and placeBidReveal passes (the time is before
\* endTime) or the time check of settleAuction passes (the time is endTime or
\* later), never both.  In the state left by an accepted bid or commitment
\* the auction is unsettled and settleAuction by anyone fails as not ended.
C35_DisjointWindows ==
    \A t \in Traded :
        /\ Live(t) =>
              \A p \in Parties :
                  \A clock \in {now, auctions[t].endTime - 1, auctions[t].endTime,
                                auctions[t].endTime + 1} :
                      /\ BidTimeOk(p, t, clock) <=> clock < auctions[t].endTime
                      /\ BidTimeOver(p, t, clock) <=> clock >= auctions[t].endTime
                      /\ SettleTimeOk(p, t, clock) <=> clock >= auctions[t].endTime
                      /\ BidTimeOk(p, t, clock) <=> ~SettleTimeOk(p, t, clock)
        /\ (last.op \in BidSteps \cup {"commitBid"} /\ last.tokenId = t) =>
              /\ Live(t)
              /\ \A p \in Parties :
                     settleAuction(Unlocked, p, t, now).err = "AuctionNotEnded"

\* A bid has just been accepted in the last second of an auction and has
\* moved its end: settleAuction, one second away before, is out of reach.
C35_Witness ==
    \E t \in Traded :
        /\ last.op \in BidSteps /\ last.tokenId = t
        /\ now = 1 + AUCTION_EXTENSION_DURATION
        /\ auctions[t].endTime = now + AUCTION_EXTENSION_DURATION

\* The step is an accepted bid on t, direct or revealed; its amount.
AcceptedBid(t) == last' # last /\ last'.op \in BidSteps /\ last'.tokenId = t
BidAmount == IF last'.op = "placeBid" THEN last'.value ELSE last'.arg

C37_CommitmentFrame ==
    [][/\ \A t \in Assets : \A p \in Parties :
              bidCommitments'[t][p] # bidCommitments[t][p] =>
                  /\ last'.op \in {"commitBid", "placeBidReveal"}
                  /\ last'.sender = p /\ last'.tokenId = t
                  /\ last'.op = "commitBid" => bidCommitments'[t][p] = last'.arg
                  /\ last'.op = "placeBidReveal" => bidCommitments'[t][p] = ZeroHash
       /\ last'.op \in {"settleAuction", "startAuction"} =>
              bidCommitments' = bidCommitments]_vars

\* A second auction of the asset has just been started, after time has
\* passed: the commitment bob made during the earlier auction is still
\* stored and revealing it now is accepted.
C37_Witness ==
    \E t \in Traded : \E a \in {21, 22} :
        /\ last.op = "startAuction" /\ last.tokenId = t
        /\ now = 1 + AUCTION_EXTENSION_DURATION
        /\ bidCommitments[t]["bob"] = keccak256("bob", t, a, "n1")
        /\ placeBidReveal(St, "bob", t, a, "n1", a, now).err = "ok"

\* C38: a party's ledger balance is lowered only by a step that is that
\* party's own withdraw passing its checks (the balance goes to zero and is
\* put back if the dispatch is refused); no call by another party and no
\* listCard, unlistCard, buyCard, placeBid, commitBid, placeBidReveal or
\* settleAuction by anyone lowers it.
C38_LedgerMonotone ==
    [][\A p \in Parties :
          pendingWithdrawals'[p] < pendingWithdrawals[p] =>
              /\ last'.op = "withdraw" /\ last'.sender = p
              /\ last'.err = "dispatching"
              /\ pendingWithdrawals'[p] = 0
              /\ \A q \in Parties \ {p} : pendingWithdrawals'[q] = pendingWithdrawals[q]]_vars

\* admin has just settled an auction: the seller alice is credited and the
\* outbid bob still has his refund.
C38_Witness ==
    /\ last.op = "settleAuction" /\ last.sender = "admin"
    /\ pendingWithdrawals["alice"] > 0 /\ pendingWithdrawals["bob"] > 0

\* C39: an asset owned by the trading contract changes owner only in a step
\* that is unlistCard by the seller of its active listing (to that seller),
\* buyCard paying at least the price of its active listing (to the buyer),
\* or settleAuction of its unsettled auction (to the highest bidder if there
\* is one, to the seller otherwise).  Once its auction has an accepted bid,
\* the only step that moves it is settleAuction, to the highest bidder, and
\* no call by the seller to unlistCard, listCard or startAuction succeeds.
C39_EscrowExits ==
    [][\A t \in Assets :
          /\ (nftOwner[t] = Engine /\ nftOwner'[t] # Engine) =>
                \/ /\ last'.op = "unlistCard" /\ last'.tokenId = t
                   /\ listings[t].active /\ ~listings'[t].active
                   /\ last'.sender = listings[t].seller
                   /\ nftOwner'[t] = listings[t].seller
                \/ /\ last'.op = "buyCard" /\ last'.tokenId = t
                   /\ listings[t].active /\ ~listings'[t].active
                   /\ last'.value >= listings[t].price
                   /\ nftOwner'[t] = last'.sender
                \/ /\ last'.op = "settleAuction" /\ last'.tokenId = t
                   /\ Live(t) /\ auctions'[t].settled
                   /\ nftOwner'[t] =
                          IF auctions[t].highestBidder # NoAddr
                          THEN auctions[t].highestBidder
                          ELSE auctions[t].seller
          /\ (Live(t) /\ auctions[t].highestBidder # NoAddr) =>
                /\ nftOwner[t] = Engine
                /\ nftOwner'[t] # Engine =>
                       (last'.op = "settleAuction" /\ nftOwner'[t] = auctions[t].highestBidder)
                /\ unlistCard(St, auctions[t].seller, t).err # "ok"
                /\ listCard(St, auctions[t].seller, t, 1).err # "ok"
                /\ startAuction(St, auctions[t].seller, t, 1, MIN_AUCTION_DURATION, now).err
                       # "ok"]_vars

\* The asset has left escrow twice: to alice, highest bidder of its settled
\* auction, and now from her listing to bob, who has just bought it.
C39_Witness ==
    \E t \in Traded :
        /\ last.op = "buyCard" /\ last.tokenId = t /\ last.sender = "bob"
        /\ nftOwner[t] = "bob" /\ listings[t].seller = "alice"
        /\ auctions[t].settled /\ auctions[t].highestBidder = "alice"

\* C40 (as stated): once an unsettled auction has reached its endTime,
\* settleAuction called by any party succeeds whenever the trading contract
\* is not paused.
C40_Original ==
    \A t \in Traded :
        (Live(t) /\ now >= auctions[t].endTime /\ ~paused /\ status = NOT_ENTERED) =>
            \A p \in Parties : settleAuction(St, p, t, now).err = "ok"

\* C40 (amended): once an unsettled auction has reached its endTime,
\* settleAuction called by any party succeeds whenever neither the trading
\* contract nor the NFT contract is paused (and the call is not made from
\* inside a fund dispatch); nothing the seller or a bidder does changes that.
\* So if from some point on neither contract is paused, then, time advancing
\* and settleAuction being called, every unsettled auction is eventually
\* settled with its asset out of escrow.
C40_Finalizable ==
    /\ [](\A t \in Traded :
             (Live(t) /\ now >= auctions[t].endTime /\ ~paused /\ ~nftPaused
                  /\ status = NOT_ENTERED) =>
                 \A p \in Parties : settleAuction(St, p, t, now).err = "ok")
    /\ (<>[](~paused /\ ~nftPaused)) =>
           \A t \in Traded :
               Live(t) ~> (auctions[t].settled /\ nftOwner[t] # Engine)

\* An auction with a bid has reached its end while the NFT contract is
\* paused and the trading contract is not.
C40_Witness ==
    \E t \in Traded :
        /\ Live(t) /\ now >= auctions[t].endTime /\ auctions[t].highestBidder # NoAddr
        /\ ~paused /\ nftPaused /\ status = NOT_ENTERED
        /\ settleAuction(St, "bob", t, now).err = "TransferRefused"

====
